---- MODULE Spec2Model ----
(***************************************************************************)
(* State-machine model of the trade engine (app/trade_engine.py) and of    *)
(* the store operations it uses (app/redis_store.py).                      *)
(*                                                                         *)
(* One user, one asyncio event loop.  A coroutine is a task record with a  *)
(* pc naming the await it is suspended on; one action = the awaited store  *)
(* or broker operation taking effect, followed by the synchronous code up  *)
(* to the next await.  Arguments of a store write (pos.to_public()) are    *)
(* evaluated when the call is issued and kept in the task's "pay" field.   *)
(*                                                                         *)
(* Prices are integers in units of 0.05 (one tick), percentages are in     *)
(* units of 0.1 %, and price levels (target_price, sl_price, trailing      *)
(* line) are kept multiplied by PctScale so that the comparisons of the    *)
(* code are exact integer comparisons.                                     *)
(***************************************************************************)
EXTENDS Integers, Sequences, FiniteSets, TLC

(* ------------------------------ bounds --------------------------------- *)
MaxAlerts == 2          \* webhook deliveries handled in one run
MaxExitTasks == 2       \* _exit_position coroutines alive at the same time
MaxSquareoff == 1       \* square-off requests (manual or bulk) in one run
MaxCalls == 3           \* submissions to the Order Worker in one run
MaxPieces == 3          \* pieces a received string is made of
MaxClock == 2           \* seconds the wall clock runs through
MaxRestarts == 1        \* restarts of the server process in one run

(* -------------------------- program constants -------------------------- *)
PctScale == 1000        \* 100 % in units of 0.1 %

Symbols == {"SBIN", "IDEA", "HDFCBANK", "ITC"}
\* the rows of the table for these symbols; IDEA has none
STOCK_INDEX_MAPPING ==
    [s \in {"SBIN", "HDFCBANK", "ITC"} |-> IF s = "ITC" THEN "NIFTY FMCG" ELSE "NIFTY BANK"]
Sectors == {"NIFTY BANK", "NIFTY FMCG"}

Deliveries == 1..MaxAlerts
ExitTasks == 1..MaxExitTasks
Calls == 1..MaxCalls
Outcomes == {"ok", "fail"}
ActiveStatus == {"OPEN", "EXIT_CONDITIONS_MET", "EXITING"}

VARIABLES
    \* ---- shared store (redis) ----
    kill,              \* kill:{user} exists
    lock,              \* lock:{user}:{symbol}:{action} exists
    lock_by,           \* the invocation whose acquire_lock created the key (0: no key)
    open_guard,        \* trade:open:{user}:{symbol}  (0 = absent, else order id)
    snapshot,          \* positions:{user} hash, field = symbol
    counter,           \* trade:count:{user}:{ymd}:{alert}
    config,            \* cfg:alerts:{user}[alert]
    store_creds,       \* kite:creds / kite:access present
    \* ---- engine memory ----
    positions,         \* self.positions: symbol -> trade id of the object (0 = no key)
    pos,               \* the Position objects, by trade id
    ticks,             \* self.ticks[symbol]["ltp"]   (0 = no tick cached)
    exit_inflight,     \* self._exit_inflight
    exit_signal_sent,  \* self._exit_signal_sent
    eng_ready,         \* self.api_key and self.access_token
    sym_pct, sector_sum, sector_cnt,   \* sector accumulators
    sector_order,      \* insertion order of the keys of self.sector_sum
    \* ---- coroutines ----
    et,                \* on_chartink_alert / _try_enter, one per delivery
    xt,                \* _exit_position tasks
    tt,                \* a suspended _on_tick_unsafe
    mt,                \* manual_squareoff_zerodha
    bt,                \* exit_all_open_positions
    ot,                \* a suspended _on_order_update_unsafe
    \* ---- broker and history ----
    orderLog,          \* orders accepted by the broker, order id = index
    brokerNet,         \* net quantity per symbol at the broker
    attempts,          \* number of entry orders handed to the broker (ok or not)
    \* ---- Order Worker ----
    ow_q,              \* OrderWorker.q: submissions waiting, oldest first
    ow_task,           \* OrderWorker.task: "none", or where _run is suspended
    ow_fut,            \* the future of each submission
    ow_started,        \* submissions in the order the worker began their call
    broker_inflight,   \* broker calls that have begun and not returned yet
    \* ---- library functions under test ----
    arg,               \* the input handed to the function
    ret,               \* its results (<<>> before the call)
    \* ---- alert history ----
    alerts,            \* alerts:{user} list, newest first
    now,               \* the wall clock, in seconds
    ht,                \* chartink_webhook's calls of save_alert, one per delivery
    \* ---- process ----
    boots,             \* restarts of the server process so far
    \* ---- alert configs ----
    alert_cfg,         \* alert_cfg:{user} hash: <<key, config>> pairs
    alert_cfg_legacy,  \* the legacy mirror hash
    cfg_look           \* deletions and lookups of configs since the last save, in order

storeVars == <<kill, lock, lock_by, open_guard, snapshot, counter, config, store_creds>>
sectorVars == <<sym_pct, sector_sum, sector_cnt, sector_order>>
memVars == <<positions, pos, ticks, exit_inflight, exit_signal_sent, eng_ready>>
taskVars == <<et, xt, tt, mt, bt, ot>>
brokerVars == <<orderLog, brokerNet, attempts>>
workerVars == <<ow_q, ow_task, ow_fut, ow_started, broker_inflight>>
fnVars == <<arg, ret>>
cfgVars == <<alert_cfg, alert_cfg_legacy, cfg_look>>
histVars == <<alerts, now, ht>>
vars == <<kill, lock, lock_by, open_guard, snapshot, counter, config, store_creds,
          positions, pos, ticks, exit_inflight, exit_signal_sent, eng_ready,
          sym_pct, sector_sum, sector_cnt, sector_order,
          et, xt, tt, mt, bt, ot, orderLog, brokerNet, attempts,
          ow_q, ow_task, ow_fut, ow_started, broker_inflight, arg, ret,
          alerts, now, ht, boots, alert_cfg, alert_cfg_legacy, cfg_look>>

(* ------------------------------ data ----------------------------------- *)
NoPos ==
    [trade_id |-> 0, symbol |-> "", side |-> "", product |-> "", qty |-> 0,
     entry_price |-> 0, entry_order_id |-> 0,
     target_price |-> 0, sl_price |-> 0, tsl_pct |-> 0,
     highest |-> 0, lowest |-> 0,
     status |-> "NONE", exit_reason |-> "", exit_order_id |-> 0,
     cfg_target_pct |-> 0, cfg_sl_pct |-> 0, cfg_tsl_pct |-> 0,
     ltp |-> 0, pnl |-> 0]

\* AlertConfig defaults of the dataclass, in model units.
AlertConfig ==
    [enabled |-> TRUE, direction |-> "LONG", product |-> "MIS",
     qty_mode |-> "CAPITAL", capital |-> 400000, qty |-> 1,
     target_pct |-> 10, stop_loss_pct |-> 7, trailing_sl_pct |-> 5,
     trade_limit_per_day |-> 5, sector_filter_on |-> FALSE, top_n_sector |-> 2]

\* get_alert_config found no entry for the alert under any of its spellings
NoConfig == [found |-> FALSE]

LockKeys == Symbols \X {"entry", "exit"}

Max(a, b) == IF a >= b THEN a ELSE b
Min(a, b) == IF a <= b THEN a ELSE b

(* --------------------------- sector ranking ---------------------------- *)
NoPct == -999999        \* sym_pct.get(symbol) is None

\* ((ltp - close) / close) * 100, in units of 0.1 %
PctChange(ltp, close) == ((ltp - close) * PctScale) \div close

\* avg(a) >= avg(b), both counts positive
AvgGeq(a, b) == sector_sum[a] * sector_cnt[b] >= sector_sum[b] * sector_cnt[a]

RECURSIVE InsertRanked(_, _)
InsertRanked(r, sec) ==
    IF r = <<>> THEN <<sec>>
    ELSE IF AvgGeq(Head(r), sec) THEN <<Head(r)>> \o InsertRanked(Tail(r), sec)
    ELSE <<sec>> \o r

RECURSIVE RankFrom(_, _)
RankFrom(order, acc) ==
    IF order = <<>> THEN acc
    ELSE RankFrom(Tail(order),
                  IF sector_cnt[Head(order)] > 0 THEN InsertRanked(acc, Head(order)) ELSE acc)

\* sectors with data, best average first, stable for equal averages
get_sector_rank == RankFrom(sector_order, <<>>)

\* faulty variant: a symbol without a sector passes the filter
_sector_allows_unknown(symbol, cfg) ==
    IF ~cfg.sector_filter_on THEN TRUE
    ELSE IF symbol \notin DOMAIN STOCK_INDEX_MAPPING THEN TRUE
    ELSE LET sec == STOCK_INDEX_MAPPING[symbol]
             ranked == get_sector_rank
             n == Len(ranked)
             topn == Max(1, cfg.top_n_sector)
         IN IF n = 0 THEN TRUE
            ELSE IF cfg.direction = "LONG" THEN sec \in {ranked[i] : i \in 1..Min(topn, n)}
            ELSE sec \in {ranked[i] : i \in Max(1, n - topn + 1)..n}

_sector_allows(symbol, cfg) ==
    IF ~cfg.sector_filter_on THEN TRUE
    ELSE IF symbol \notin DOMAIN STOCK_INDEX_MAPPING THEN FALSE
    ELSE LET sec == STOCK_INDEX_MAPPING[symbol]
             ranked == get_sector_rank
             n == Len(ranked)
             topn == Max(1, cfg.top_n_sector)
             top_gainers == {ranked[i] : i \in 1..Min(topn, n)}
             top_losers == {ranked[i] : i \in Max(1, n - topn + 1)..n}
         IN IF n = 0 THEN TRUE
            ELSE IF cfg.direction = "LONG" THEN sec \in top_gainers
            ELSE sec \in top_losers

(* ------------------------------ helpers -------------------------------- *)
_calc_qty(cfg, ltp) ==
    IF cfg.qty_mode = "QTY" THEN Max(1, cfg.qty)
    ELSE IF ltp <= 0 THEN 0
    ELSE Max(1, cfg.capital \div ltp)

SideOf(cfg) == IF cfg.direction = "LONG" THEN "BUY" ELSE "SELL"
ProductOf(cfg) == IF cfg.product = "CNC" THEN "CNC" ELSE "MIS"

\* target / stop levels from an entry price, multiplied by PctScale
TargetLevel(side, entry, tgt_pct) ==
    IF side = "BUY" THEN entry * (PctScale + tgt_pct) ELSE entry * (PctScale - tgt_pct)
StopLevel(side, entry, sl_pct) ==
    IF side = "BUY" THEN entry * (PctScale - sl_pct) ELSE entry * (PctScale + sl_pct)

\* The Position built by _try_enter for delivery d once its order is placed.
NewPosition(d, symbol, cfg, ltp, qty, oid) ==
    LET side == SideOf(cfg)
        product == ProductOf(cfg)
        mon == product = "MIS" /\ ltp > 0
    IN [NoPos EXCEPT
          !.trade_id = d, !.symbol = symbol, !.side = side, !.product = product,
          !.qty = qty, !.entry_price = ltp, !.entry_order_id = oid,
          !.cfg_target_pct = cfg.target_pct, !.cfg_sl_pct = cfg.stop_loss_pct,
          !.cfg_tsl_pct = cfg.trailing_sl_pct,
          !.target_price = IF mon THEN TargetLevel(side, ltp, cfg.target_pct) ELSE 0,
          !.sl_price = IF mon THEN StopLevel(side, ltp, cfg.stop_loss_pct) ELSE 0,
          !.highest = IF mon /\ side = "BUY" THEN ltp ELSE 0,
          !.lowest = IF mon /\ side = "SELL" THEN ltp ELSE 0,
          !.tsl_pct = IF mon THEN cfg.trailing_sl_pct ELSE 0,
          !.status = "OPEN", !.ltp = ltp]

(* --------------------------- store scripts ----------------------------- *)
\* faulty variant: the lock key is looked at before the kill key
LuaLockResult_lock_first(key) ==
    IF lock[key] THEN 0 ELSE IF kill THEN -2 ELSE 1

\* faulty variant: the kill switch is not looked at
LuaLockResult_no_kill(key) ==
    IF lock[key] THEN 0 ELSE 1

\* LUA_LOCK: -2 kill, 0 busy, 1 acquired
LuaLockResult(key) ==
    IF kill THEN -2 ELSE IF lock[key] THEN 0 ELSE 1
LuaLockEffect(key) ==
    IF LuaLockResult(key) = 1 THEN [lock EXCEPT ![key] = TRUE] ELSE lock
\* PSETEX writes the key for the caller
LuaLockHolder(key, caller) ==
    IF LuaLockResult(key) = 1 THEN [lock_by EXCEPT ![key] = caller] ELSE lock_by

\* release_lock: redis.delete of the key, whoever created it
Released(locks, key) == [locks EXCEPT ![key] = FALSE]
\* the key's creator once the key is gone
Unheld(key) == [lock_by EXCEPT ![key] = 0]

\* faulty variant: the call is refused only above the limit
LuaLimitResult_off_by_one(limit) ==
    IF limit <= 0 THEN 1 ELSE IF counter > limit THEN 0 ELSE 1

\* faulty variant: an allowed call is not counted
LuaLimitEffect_no_count(limit) == counter

\* LUA_TRADE_LIMIT: 1 allowed, 0 refused
LuaLimitResult(limit) ==
    IF limit <= 0 THEN 1 ELSE IF counter >= limit THEN 0 ELSE 1
LuaLimitEffect(limit) ==
    IF limit > 0 /\ counter < limit THEN counter + 1 ELSE counter

(* --------------------------- normalizers ------------------------------- *)
\* A string is a sequence of characters.  "tab" stands for any whitespace
\* character other than the space, "zw" for a zero-width character
\* (U+200B..U+200D, U+FEFF), which str.strip() does not remove.
IsSpace(c) == c \in {" ", "tab"}

UpperCh(c) ==
    CASE c = "s" -> "S" [] c = "n" -> "N" [] c = "e" -> "E" [] c = "q" -> "Q" [] OTHER -> c
LowerCh(c) ==
    CASE c = "S" -> "s" [] c = "N" -> "n" [] c = "E" -> "e" [] c = "Q" -> "q" [] OTHER -> c

StrUpper(x) == [i \in 1..Len(x) |-> UpperCh(x[i])]
StrLower(x) == [i \in 1..Len(x) |-> LowerCh(x[i])]

RECURSIVE LStrip(_)
LStrip(x) == IF x # <<>> /\ IsSpace(Head(x)) THEN LStrip(Tail(x)) ELSE x
RECURSIVE RStrip(_)
RStrip(x) == IF x # <<>> /\ IsSpace(x[Len(x)]) THEN RStrip(SubSeq(x, 1, Len(x) - 1)) ELSE x
\* str.strip()
Strip(x) == RStrip(LStrip(x))

NotZeroWidth(c) == c # "zw"
\* _ZERO_WIDTH.sub("", x)
DropZeroWidth(x) == SelectSeq(x, NotZeroWidth)

\* _WS.sub(" ", x): every run of whitespace becomes one space
RECURSIVE CollapseWs(_)
CollapseWs(x) ==
    IF x = <<>> THEN x
    ELSE IF IsSpace(Head(x)) THEN <<" ">> \o CollapseWs(LStrip(Tail(x)))
    ELSE <<Head(x)>> \o CollapseWs(Tail(x))

\* x.split(":", 1)[1] when x holds a colon
AfterColon(x) ==
    IF \E i \in 1..Len(x) : x[i] = ":"
    THEN LET i == CHOOSE j \in 1..Len(x) : x[j] = ":" /\ \A k \in 1..(j - 1) : x[k] # ":"
         IN SubSeq(x, i + 1, Len(x))
    ELSE x

EndsWith(x, suf) ==
    Len(x) >= Len(suf) /\ SubSeq(x, Len(x) - Len(suf) + 1, Len(x)) = suf
DropLast3(x) == SubSeq(x, 1, Len(x) - 3)

\* redis_store.norm_symbol
norm_symbol(s) ==
    LET x1 == StrUpper(Strip(s))
        x2 == Strip(DropZeroWidth(x1))
        x3 == IF \E i \in 1..Len(x2) : x2[i] = ":" THEN Strip(AfterColon(x2)) ELSE x2
        x4 == IF EndsWith(x3, <<"-", "E", "Q">>) THEN Strip(DropLast3(x3)) ELSE x3
    IN Strip(CollapseWs(x4))

UnderscoreDash(c) == IF c \in {"_", "-"} THEN " " ELSE c

\* redis_store.norm_alert_name
norm_alert_name(s) ==
    LET x1 == StrLower(Strip(DropZeroWidth(s)))
        x2 == [i \in 1..Len(x1) |-> UnderscoreDash(x1[i])]
    IN Strip(CollapseWs(x2))

\* chartink_client.normalize_alert_name: " ".join(s.split())
normalize_alert_name(name) ==
    LET s1 == StrLower(Strip(DropZeroWidth(name)))
        s2 == [i \in 1..Len(s1) |-> UnderscoreDash(s1[i])]
    IN CollapseWs(Strip(s2))

\* chartink_client._strip_exchange_prefix
_strip_exchange_prefix(s) ==
    IF \E i \in 1..Len(s) : s[i] = ":" THEN Strip(AfterColon(s)) ELSE s

\* chartink_client._strip_common_suffixes
_strip_common_suffixes(s) ==
    LET s1 == IF EndsWith(s, <<".", "N", "S">>) THEN DropLast3(s) ELSE s
    IN IF EndsWith(s1, <<"-", "E", "Q">>) THEN DropLast3(s1) ELSE s1

\* the characters of a Zerodha tradingsymbol that occur in the alphabet
AllowedCh(c) == c \in {"S", "N", "E", "Q", "-", "&"}

\* chartink_client.normalize_symbol
normalize_symbol(sym) ==
    LET s1 == StrUpper(Strip(DropZeroWidth(sym)))
        s2 == StrUpper(Strip(_strip_exchange_prefix(s1)))
        s3 == _strip_common_suffixes(StrUpper(Strip(s2)))
        s4 == StrUpper(Strip(SelectSeq(s3, AllowedCh)))
    IN IF s1 = <<>> THEN <<>>
       ELSE IF s2 = <<>> THEN <<>>
       ELSE IF s4 = <<>> \/ s4 = <<"N", "S", "E">> THEN <<>>
       ELSE s4

(* ------------------------------- tasks --------------------------------- *)
IdleEntry ==
    [pc |-> "idle", sym |-> "", ltp |-> 0, qty |-> 0, oid |-> 0,
     status |-> "", reason |-> "", pay |-> NoPos]
FreeExit ==
    [pc |-> "free", sym |-> "", reason |-> "", ref |-> 0,
     ok |-> FALSE, via |-> "", pay |-> NoPos]
IdleTick == [pc |-> "idle", sym |-> "", reason |-> "", ref |-> 0, pay |-> NoPos]
IdleManual == [pc |-> "idle", sym |-> "", side |-> "", qty |-> 0, calls |-> 0]
IdleBulk == [pc |-> "idle", syms |-> {}, calls |-> 0]
IdleOrderUpdate == [pc |-> "idle", sym |-> "", pay |-> NoPos]
\* ts: the alert's timestamp (0 = ""), time: payload["time"] of the call under
\* way, first: payload["time"] of the RECEIVED call, list: what lrange returned
IdleHook == [pc |-> "idle", ts |-> 0, time |-> 0, first |-> 0, list |-> <<>>]

(* ------------------------------- Init ---------------------------------- *)
\* a freshly constructed engine over a store without locks, guards or snapshot
InitEngine ==
    /\ kill = FALSE
    /\ lock = [k \in LockKeys |-> FALSE]
    /\ lock_by = [k \in LockKeys |-> 0]
    /\ open_guard = [s \in Symbols |-> 0]
    /\ snapshot = [s \in Symbols |-> NoPos]
    /\ counter = 0
    /\ eng_ready = store_creds
    /\ positions = [s \in Symbols |-> 0]
    /\ pos = [d \in Deliveries |-> NoPos]
    /\ ticks = [s \in Symbols |-> 0]
    /\ exit_inflight = [s \in Symbols |-> FALSE]
    /\ exit_signal_sent = [s \in Symbols |-> FALSE]
    /\ sym_pct = [s \in Symbols |-> NoPct]
    /\ sector_sum = [c \in Sectors |-> 0]
    /\ sector_cnt = [c \in Sectors |-> 0]
    /\ sector_order = <<>>
    /\ et = [d \in Deliveries |-> IdleEntry]
    /\ xt = [x \in ExitTasks |-> FreeExit]
    /\ tt = IdleTick
    /\ mt = IdleManual
    /\ bt = IdleBulk
    /\ ot = IdleOrderUpdate
    /\ orderLog = <<>>
    /\ brokerNet = [s \in Symbols |-> 0]
    /\ attempts = 0
    /\ ow_q = <<>>
    /\ ow_task = IF store_creds THEN "get" ELSE "none"
    /\ ow_fut = [c \in Calls |-> "none"]
    /\ ow_started = <<>>
    /\ broker_inflight = {}
    /\ now = 1
    /\ ht = [d \in Deliveries |-> IdleHook]
    /\ boots = 0
    /\ alert_cfg = {}
    /\ alert_cfg_legacy = {}
    /\ cfg_look = <<>>

\* a fresh store: the alert history is empty too
InitState ==
    /\ InitEngine
    /\ alerts = <<>>

InitCommon ==
    /\ InitState
    /\ arg = <<>>
    /\ ret = <<>>

(* ===================== Entry path: on_chartink_alert ==================== *)
Entry(s) == <<s, "entry">>
Exit(s) == <<s, "exit">>

SetTask(d, t) == et' = [et EXCEPT ![d] = t]

\* the symbol's result is known; _try_enter has nothing left to await
Result(t, status, reason) == [t EXCEPT !.pc = "done", !.status = status, !.reason = reason]
\* faulty variant: a return inside the try block skips the finally clause
Leaving_no_release(t, status, reason) == [t EXCEPT !.pc = "done", !.status = status, !.reason = reason]
\* the result is known inside the try block: the finally clause still has to run
Leaving(t, status, reason) == [t EXCEPT !.pc = "release", !.status = status, !.reason = reason]

\* on_chartink_alert, after _try_enter: REST quote when no tick is cached
\* (q = 0: the quote call failed or returned nothing)
QuoteFallback(s, ready, q) ==
    IF ticks[s] = 0 /\ ready /\ q > 0 THEN [ticks EXCEPT ![s] = q] ELSE ticks

\* _try_enter from the price lookup to the allow_trade call
AfterLtp(t, ltp) ==
    IF config.qty_mode = "CAPITAL" /\ ltp <= 0
    THEN Leaving(t, "SKIPPED", "NO_LTP_FOR_CAPITAL_QTY")
    ELSE LET qty == _calc_qty(config, IF ltp > 0 THEN ltp ELSE 1)
         IN IF qty <= 0 THEN Leaving(t, "REJECTED", "BAD_QTY")
            ELSE [t EXCEPT !.pc = "allow", !.ltp = ltp, !.qty = qty]

\* _try_enter from a ready broker session to the next await
AfterReady(t) ==
    IF ProductOf(config) = "CNC" /\ SideOf(config) = "SELL"
    THEN Leaving(t, "REJECTED", "CNC_SHORT_NOT_ALLOWED")
    ELSE IF config.qty_mode = "CAPITAL" /\ ticks[t.sym] <= 0
    THEN [t EXCEPT !.pc = "wait_ltp"]
    ELSE AfterLtp(t, ticks[t.sym])

\* chartink_webhook: a delivery of the alert for one symbol reaches the engine
Webhook(d, s) ==
    /\ et[d].pc = "idle"
    /\ \A e \in Deliveries : e < d => et[e].pc # "idle"
    /\ SetTask(d, [et[d] EXCEPT !.pc = "is_kill", !.sym = s])
    /\ UNCHANGED <<storeVars, sectorVars, memVars, xt, tt, mt, bt, ot, brokerVars, workerVars, fnVars, cfgVars, histVars, boots>>

\* on_chartink_alert: await store.is_kill (a failing read counts as "not killed")
Alert_is_kill(d, o) ==
    /\ et[d].pc = "is_kill"
    /\ SetTask(d, IF kill /\ o = "ok" THEN Result(et[d], "REJECTED", "KILL_SWITCH")
                  ELSE [et[d] EXCEPT !.pc = "get_cfg"])
    /\ UNCHANGED <<storeVars, sectorVars, memVars, xt, tt, mt, bt, ot, brokerVars, workerVars, fnVars, cfgVars, histVars, boots>>

\* _try_enter up to the get_open call: sector gate and in-memory duplicate
TryEnterPrefix(t) ==
    LET s == t.sym IN
    IF ~_sector_allows(s, config) THEN Result(t, "SKIPPED", "SECTOR_FILTER")
    ELSE IF positions[s] # 0 /\ pos[positions[s]].status \in {"OPEN", "EXITING"}
    THEN Result(t, "SKIPPED", "ALREADY_OPEN")
    ELSE [t EXCEPT !.pc = "get_open"]

\* faulty variant: an alert stopped by its configuration still claims a slot of the day
Alert_get_cfg_counts(d, inWindow, q) ==
    /\ et[d].pc = "get_cfg"
    /\ LET stopped == config = NoConfig \/ ~config.enabled \/ ~inWindow
           t == IF config = NoConfig THEN Result(et[d], "SKIPPED", "NO_CONFIG")
                ELSE IF ~config.enabled THEN Result(et[d], "SKIPPED", "CFG_DISABLED")
                ELSE IF ~inWindow THEN Result(et[d], "REJECTED", "OUTSIDE_ENTRY_WINDOW")
                ELSE TryEnterPrefix(et[d])
       IN /\ SetTask(d, t)
          /\ counter' = IF stopped THEN counter + 1 ELSE counter
          /\ ticks' = IF t.pc = "done" /\ ~stopped
                      THEN QuoteFallback(t.sym, eng_ready, q) ELSE ticks
    /\ UNCHANGED <<kill, lock, lock_by, open_guard, snapshot, config, store_creds, sectorVars,
                   positions, pos, exit_inflight, exit_signal_sent,
                   eng_ready, xt, tt, mt, bt, ot, brokerVars, workerVars, fnVars, cfgVars, histVars, boots>>

\* on_chartink_alert: await get_alert_config, config checks, then _try_enter starts
Alert_get_cfg(d, inWindow, q) ==
    /\ et[d].pc = "get_cfg"
    /\ LET stopped == config = NoConfig \/ ~config.enabled \/ ~inWindow
           t == IF config = NoConfig THEN Result(et[d], "SKIPPED", "NO_CONFIG")
                ELSE IF ~config.enabled THEN Result(et[d], "SKIPPED", "CFG_DISABLED")
                ELSE IF ~inWindow THEN Result(et[d], "REJECTED", "OUTSIDE_ENTRY_WINDOW")
                ELSE TryEnterPrefix(et[d])
       IN /\ SetTask(d, t)
          /\ ticks' = IF t.pc = "done" /\ ~stopped
                      THEN QuoteFallback(t.sym, eng_ready, q) ELSE ticks
    /\ UNCHANGED <<storeVars, sectorVars, positions, pos, exit_inflight, exit_signal_sent,
                   eng_ready, xt, tt, mt, bt, ot, brokerVars, workerVars, fnVars, cfgVars, histVars, boots>>

\* _try_enter: await store.get_open
TryEnter_get_open(d, q) ==
    /\ et[d].pc = "get_open"
    /\ IF open_guard[et[d].sym] # 0
       THEN /\ SetTask(d, Result(et[d], "SKIPPED", "ALREADY_OPEN_REDIS"))
            /\ ticks' = QuoteFallback(et[d].sym, eng_ready, q)
       ELSE /\ SetTask(d, [et[d] EXCEPT !.pc = "acquire"])
            /\ ticks' = ticks
    /\ UNCHANGED <<storeVars, sectorVars, positions, pos, exit_inflight, exit_signal_sent,
                   eng_ready, xt, tt, mt, bt, ot, brokerVars, workerVars, fnVars, cfgVars, histVars, boots>>

\* _try_enter: await store.acquire_lock(.., "entry", ttl_ms=2000), then the
\* critical section up to its first await
TryEnter_acquire_lock(d, q) ==
    /\ et[d].pc = "acquire"
    /\ LET s == et[d].sym
           lk == LuaLockResult(Entry(s))
       IN /\ lock' = LuaLockEffect(Entry(s))
          /\ lock_by' = LuaLockHolder(Entry(s), d)
          /\ IF lk # 1
             THEN /\ SetTask(d, Result(et[d], "SKIPPED",
                                       IF lk = -2 THEN "KILL" ELSE "ENTRY_LOCK_BUSY"))
                  /\ ticks' = QuoteFallback(s, eng_ready, q)
             ELSE /\ SetTask(d, IF eng_ready THEN AfterReady(et[d])
                                ELSE [et[d] EXCEPT !.pc = "configure"])
                  /\ ticks' = ticks
    /\ UNCHANGED <<kill, open_guard, snapshot, counter, config, store_creds, sectorVars,
                   positions, pos, exit_inflight, exit_signal_sent, eng_ready,
                   xt, tt, mt, bt, ot, brokerVars, workerVars, fnVars, cfgVars, histVars, boots>>

\* _ensure_kite_ready -> configure_kite: credentials loaded from the store
TryEnter_configure_kite(d) ==
    /\ et[d].pc = "configure"
    /\ eng_ready' = store_creds
    /\ SetTask(d, IF store_creds THEN AfterReady(et[d])
                  ELSE Leaving(et[d], "ERROR", "ZERODHA_NOT_CONNECTED"))
    /\ UNCHANGED <<storeVars, sectorVars, positions, pos, ticks, exit_inflight,
                   exit_signal_sent, xt, tt, mt, bt, ot, brokerVars, workerVars, fnVars, cfgVars, histVars, boots>>

\* _wait_for_ltp: a tick was seen within 300 ms, or the wait timed out
TryEnter_wait_for_ltp(d, timeout) ==
    /\ et[d].pc = "wait_ltp"
    /\ timeout \/ ticks[et[d].sym] > 0
    /\ SetTask(d, AfterLtp(et[d], IF timeout THEN 0 ELSE ticks[et[d].sym]))
    /\ UNCHANGED <<storeVars, sectorVars, memVars, xt, tt, mt, bt, ot, brokerVars, workerVars, fnVars, cfgVars, histVars, boots>>

\* _try_enter: await store.allow_trade (LUA_TRADE_LIMIT), then the order is submitted
TryEnter_allow_trade(d) ==
    /\ et[d].pc = "allow"
    /\ counter' = LuaLimitEffect(config.trade_limit_per_day)
    /\ SetTask(d, IF LuaLimitResult(config.trade_limit_per_day) = 1
                  THEN [et[d] EXCEPT !.pc = "place"]
                  ELSE Leaving(et[d], "SKIPPED", "TRADE_LIMIT"))
    /\ UNCHANGED <<kill, lock, lock_by, open_guard, snapshot, config, store_creds, sectorVars,
                   memVars, xt, tt, mt, bt, ot, brokerVars, workerVars, fnVars, cfgVars, histVars, boots>>

\* the broker accepts an order: it is logged and fills at once
BrokerAccept(kind, s, side, qty, trade) ==
    /\ orderLog' = Append(orderLog, [kind |-> kind, sym |-> s, side |-> side, trade |-> trade])
    /\ brokerNet' = [brokerNet EXCEPT ![s] = IF side = "BUY" THEN @ + qty ELSE @ - qty]

\* _place_order for the entry: the Order Worker ran kite.place_order
TryEnter_place_order(d, o) ==
    /\ et[d].pc = "place"
    /\ attempts' = attempts + 1
    /\ IF o = "ok"
       THEN /\ BrokerAccept("entry", et[d].sym, SideOf(config), et[d].qty, d)
            /\ SetTask(d, [et[d] EXCEPT !.pc = "mark_open", !.oid = Len(orderLog) + 1])
       ELSE /\ UNCHANGED <<orderLog, brokerNet>>
            /\ SetTask(d, [et[d] EXCEPT !.pc = "set_kill"])
    /\ UNCHANGED <<storeVars, sectorVars, memVars, xt, tt, mt, bt, ot, workerVars, fnVars, cfgVars, histVars, boots>>

\* faulty variant: the failed placement gives the claimed slot back
TryEnter_set_kill_refund(d) ==
    /\ et[d].pc = "set_kill"
    /\ kill' = TRUE
    /\ counter' = counter - 1
    /\ SetTask(d, Leaving(et[d], "ERROR", "ORDER_FAIL"))
    /\ UNCHANGED <<lock, lock_by, open_guard, snapshot, config, store_creds, sectorVars,
                   memVars, xt, tt, mt, bt, ot, brokerVars, workerVars, fnVars, cfgVars, histVars, boots>>

\* faulty variant: the failed placement does not engage the kill switch
TryEnter_set_kill_silent(d) ==
    /\ et[d].pc = "set_kill"
    /\ SetTask(d, Leaving(et[d], "ERROR", "ORDER_FAIL"))
    /\ UNCHANGED <<storeVars, sectorVars, memVars, xt, tt, mt, bt, ot, brokerVars, workerVars, fnVars, cfgVars, histVars, boots>>

\* _place_order except-branch: await store.set_kill(True), re-raise; _try_enter
\* turns the exception into ERROR
TryEnter_set_kill(d) ==
    /\ et[d].pc = "set_kill"
    /\ kill' = TRUE
    /\ SetTask(d, Leaving(et[d], "ERROR", "ORDER_FAIL"))
    /\ UNCHANGED <<lock, lock_by, open_guard, snapshot, counter, config, store_creds, sectorVars,
                   memVars, xt, tt, mt, bt, ot, brokerVars, workerVars, fnVars, cfgVars, histVars, boots>>

\* await store.mark_open (failure swallowed), then the position enters memory
TryEnter_mark_open(d, o) ==
    /\ et[d].pc = "mark_open"
    /\ LET s == et[d].sym
           p == NewPosition(d, s, config, et[d].ltp, et[d].qty, et[d].oid)
       IN /\ open_guard' = IF o = "ok" THEN [open_guard EXCEPT ![s] = et[d].oid] ELSE open_guard
          /\ pos' = [pos EXCEPT ![d] = p]
          /\ positions' = [positions EXCEPT ![s] = d]
          /\ SetTask(d, [et[d] EXCEPT !.pc = "upsert", !.pay = p])
    /\ UNCHANGED <<kill, lock, lock_by, snapshot, counter, config, store_creds, sectorVars,
                   ticks, exit_inflight, exit_signal_sent, eng_ready,
                   xt, tt, mt, bt, ot, brokerVars, workerVars, fnVars, cfgVars, histVars, boots>>

\* await store.upsert_position (failure swallowed); the result is ENTERED
TryEnter_upsert_position(d, o) ==
    /\ et[d].pc = "upsert"
    /\ snapshot' = IF o = "ok" THEN [snapshot EXCEPT ![et[d].sym] = et[d].pay] ELSE snapshot
    /\ SetTask(d, [Leaving(et[d], "ENTERED", "") EXCEPT !.pay = NoPos])
    /\ UNCHANGED <<kill, lock, lock_by, open_guard, counter, config, store_creds, sectorVars,
                   memVars, xt, tt, mt, bt, ot, brokerVars, workerVars, fnVars, cfgVars, histVars, boots>>

\* a store call of _try_enter that is not wrapped in try/except raises
\* (get_open, acquire_lock, allow_trade): before the lock is held the exception
\* leaves _try_enter at once, inside the critical section the finally clause runs
TryEnter_store_raises(d) ==
    /\ et[d].pc \in {"get_open", "acquire", "allow"}
    /\ SetTask(d, IF et[d].pc = "allow" THEN Leaving(et[d], "RAISED", "")
                  ELSE [et[d] EXCEPT !.pc = "panic", !.status = "RAISED"])
    /\ UNCHANGED <<storeVars, sectorVars, memVars, xt, tt, mt, bt, ot, brokerVars, workerVars, fnVars, cfgVars, histVars, boots>>

\* chartink_webhook: on_chartink_alert raised; the kill switch is set and the
\* response lists CRITICAL_FAIL for every symbol of the alert (D: its deliveries)
Webhook_panic(d, D) ==
    /\ et[d].pc = "panic"
    /\ d \in D
    /\ kill' = TRUE
    /\ et' = [e \in Deliveries |->
                IF e \in D THEN Result(et[e], "ERROR", "CRITICAL_FAIL") ELSE et[e]]
    /\ UNCHANGED <<lock, lock_by, open_guard, snapshot, counter, config, store_creds, sectorVars,
                   memVars, xt, tt, mt, bt, ot, brokerVars, workerVars, fnVars, cfgVars, histVars, boots>>

\* finally: await store.release_lock (unconditional delete, failure swallowed);
\* _try_enter returns (or the exception goes on) and on_chartink_alert finishes the symbol
TryEnter_release_lock(d, o, q) ==
    /\ et[d].pc = "release"
    /\ lock' = IF o = "ok" THEN Released(lock, Entry(et[d].sym)) ELSE lock
    /\ lock_by' = IF lock'[Entry(et[d].sym)] THEN lock_by ELSE Unheld(Entry(et[d].sym))
    /\ IF et[d].status = "RAISED"
       THEN /\ SetTask(d, [et[d] EXCEPT !.pc = "panic"])
            /\ ticks' = ticks
       ELSE /\ SetTask(d, [et[d] EXCEPT !.pc = "done"])
            /\ ticks' = QuoteFallback(et[d].sym, eng_ready, q)
    /\ UNCHANGED <<kill, open_guard, snapshot, counter, config, store_creds, sectorVars,
                   positions, pos, exit_inflight, exit_signal_sent, eng_ready,
                   xt, tt, mt, bt, ot, brokerVars, workerVars, fnVars, cfgVars, histVars, boots>>

(* ========================= Tick ingestion ============================== *)
\* faulty variant: every tick is counted as a symbol not seen before
SectorUpdate_always_new(s, pct) ==
    IF s \notin DOMAIN STOCK_INDEX_MAPPING
    THEN UNCHANGED sectorVars
    ELSE LET sec == STOCK_INDEX_MAPPING[s] IN
         /\ sym_pct' = [sym_pct EXCEPT ![s] = pct]
         /\ sector_sum' = [sector_sum EXCEPT ![sec] = @ + pct]
         /\ sector_cnt' = [sector_cnt EXCEPT ![sec] = IF @ < 3 THEN @ + 1 ELSE @]
         /\ sector_order' = IF \E i \in 1..Len(sector_order) : sector_order[i] = sec
                            THEN sector_order ELSE Append(sector_order, sec)

\* _update_sector_perf
SectorUpdate(s, pct) ==
    IF s \notin DOMAIN STOCK_INDEX_MAPPING
    THEN UNCHANGED sectorVars
    ELSE LET sec == STOCK_INDEX_MAPPING[s] IN
         /\ sym_pct' = [sym_pct EXCEPT ![s] = pct]
         /\ sector_sum' = [sector_sum EXCEPT ![sec] =
                              IF sym_pct[s] = NoPct THEN @ + pct ELSE @ + (pct - sym_pct[s])]
         /\ sector_cnt' = [sector_cnt EXCEPT ![sec] = IF sym_pct[s] = NoPct THEN @ + 1 ELSE @]
         /\ sector_order' = IF \E i \in 1..Len(sector_order) : sector_order[i] = sec
                            THEN sector_order ELSE Append(sector_order, sec)

\* faulty variant: the tick also moves the running high of the position
WithLtp_tracks(p, ltp) ==
    [p EXCEPT !.ltp = ltp,
              !.pnl = IF p.entry_price > 0
                      THEN (IF p.side = "BUY" THEN (ltp - p.entry_price) * p.qty
                            ELSE (p.entry_price - ltp) * p.qty)
                      ELSE 0,
              !.highest = IF ltp > @ THEN ltp ELSE @]

\* pos.ltp and pos.pnl
WithLtp(p, ltp) ==
    [p EXCEPT !.ltp = ltp,
              !.pnl = IF p.entry_price > 0
                      THEN (IF p.side = "BUY" THEN (ltp - p.entry_price) * p.qty
                            ELSE (p.entry_price - ltp) * p.qty)
                      ELSE 0]

\* running extremes
WithExtremes(p, ltp) ==
    IF p.side = "BUY"
    THEN [p EXCEPT !.highest = IF p.highest # 0 THEN Max(p.highest, ltp) ELSE ltp]
    ELSE [p EXCEPT !.lowest = IF p.lowest # 0 THEN Min(p.lowest, ltp) ELSE ltp]

\* trailing line, multiplied by PctScale (0 = none)
TslLine(p) ==
    IF p.tsl_pct > 0
    THEN IF p.side = "BUY" /\ p.highest > 0 THEN p.highest * (PctScale - p.tsl_pct)
         ELSE IF p.side = "SELL" /\ p.lowest > 0 THEN p.lowest * (PctScale + p.tsl_pct)
         ELSE 0
    ELSE 0

\* faulty variant: the trailing line is tested before the stop
ExitReason_trail_first(p, ltp) ==
    LET l == ltp * PctScale
        tsl_line == TslLine(p)
    IN IF p.side = "BUY"
       THEN IF p.target_price > 0 /\ l >= p.target_price THEN "TARGET"
            ELSE IF tsl_line > 0 /\ l <= tsl_line THEN "TRAILING_SL"
            ELSE IF p.sl_price > 0 /\ l <= p.sl_price THEN "STOP_LOSS"
            ELSE ""
       ELSE IF p.target_price > 0 /\ l <= p.target_price THEN "TARGET"
            ELSE IF tsl_line > 0 /\ l >= tsl_line THEN "TRAILING_SL"
            ELSE IF p.sl_price > 0 /\ l >= p.sl_price THEN "STOP_LOSS"
            ELSE ""

\* exit reason of a tick ("" = none); p already carries the updated extremes
ExitReason(p, ltp) ==
    LET l == ltp * PctScale
        tsl_line == TslLine(p)
    IN IF p.side = "BUY"
       THEN IF p.target_price > 0 /\ l >= p.target_price THEN "TARGET"
            ELSE IF p.sl_price > 0 /\ l <= p.sl_price THEN "STOP_LOSS"
            ELSE IF tsl_line > 0 /\ l <= tsl_line THEN "TRAILING_SL"
            ELSE ""
       ELSE IF p.target_price > 0 /\ l <= p.target_price THEN "TARGET"
            ELSE IF p.sl_price > 0 /\ l >= p.sl_price THEN "STOP_LOSS"
            ELSE IF tsl_line > 0 /\ l >= tsl_line THEN "TRAILING_SL"
            ELSE ""

FreeSlots == {x \in ExitTasks : xt[x].pc = "free"}
FirstFree == CHOOSE x \in FreeSlots : \A y \in FreeSlots : x <= y

\* on_tick -> _on_tick_unsafe, up to its first await (or its return)
OnTick(s, ltp, close) ==
    /\ ltp > 0
    /\ ticks' = [ticks EXCEPT ![s] = ltp]
    /\ IF close > 0 THEN SectorUpdate(s, PctChange(ltp, close)) ELSE UNCHANGED sectorVars
    /\ LET ref == positions[s] IN
       IF ref = 0 \/ pos[ref].status # "OPEN"
       THEN UNCHANGED <<pos, exit_inflight, exit_signal_sent, tt>>
       ELSE LET p1 == WithLtp(pos[ref], ltp)
                p2 == WithExtremes(p1, ltp)
                reason == ExitReason(p2, ltp)
            IN IF p1.product = "CNC"
               THEN /\ pos' = [pos EXCEPT ![ref] = p1]
                    /\ UNCHANGED <<exit_inflight, exit_signal_sent, tt>>
               ELSE IF reason = ""
               THEN /\ pos' = [pos EXCEPT ![ref] = p2]
                    /\ UNCHANGED <<exit_inflight, exit_signal_sent, tt>>
               ELSE IF ~exit_signal_sent[s]
               THEN LET p3 == [p2 EXCEPT !.status = "EXIT_CONDITIONS_MET",
                                         !.exit_reason = reason]
                    IN /\ tt.pc = "idle"
                       /\ exit_signal_sent' = [exit_signal_sent EXCEPT ![s] = TRUE]
                       /\ pos' = [pos EXCEPT ![ref] = p3]
                       /\ tt' = [pc |-> "upsert1", sym |-> s, reason |-> reason,
                                 ref |-> ref, pay |-> p3]
                       /\ UNCHANGED exit_inflight
               ELSE IF ~exit_inflight[s]
               THEN LET p3 == [p2 EXCEPT !.status = "EXITING"]
                    IN /\ tt.pc = "idle"
                       /\ exit_inflight' = [exit_inflight EXCEPT ![s] = TRUE]
                       /\ pos' = [pos EXCEPT ![ref] = p3]
                       /\ tt' = [pc |-> "upsert2", sym |-> s, reason |-> reason,
                                 ref |-> ref, pay |-> p3]
                       /\ UNCHANGED exit_signal_sent
               ELSE /\ pos' = [pos EXCEPT ![ref] = p2]
                    /\ UNCHANGED <<exit_inflight, exit_signal_sent, tt>>
    /\ UNCHANGED <<storeVars, positions, eng_ready, et, xt, mt, bt, ot, brokerVars, workerVars, fnVars, cfgVars, histVars, boots>>

\* _on_tick_unsafe resumes after the EXIT_CONDITIONS_MET snapshot write
Tick_upsert_met(o) ==
    /\ tt.pc = "upsert1"
    /\ snapshot' = IF o = "ok" THEN [snapshot EXCEPT ![tt.sym] = tt.pay] ELSE snapshot
    /\ IF ~exit_inflight[tt.sym]
       THEN LET p == [pos[tt.ref] EXCEPT !.status = "EXITING"] IN
            /\ exit_inflight' = [exit_inflight EXCEPT ![tt.sym] = TRUE]
            /\ pos' = [pos EXCEPT ![tt.ref] = p]
            /\ tt' = [tt EXCEPT !.pc = "upsert2", !.pay = p]
       ELSE /\ tt' = IdleTick
            /\ UNCHANGED <<exit_inflight, pos>>
    /\ UNCHANGED <<kill, lock, lock_by, open_guard, counter, config, store_creds, sectorVars,
                   positions, ticks, exit_signal_sent, eng_ready, et, xt, mt, bt, ot,
                   brokerVars, workerVars, fnVars, cfgVars, histVars, boots>>

\* _on_tick_unsafe resumes after the EXITING snapshot write and spawns the exit task
Tick_upsert_exiting(o) ==
    /\ tt.pc = "upsert2"
    /\ FreeSlots # {}
    /\ snapshot' = IF o = "ok" THEN [snapshot EXCEPT ![tt.sym] = tt.pay] ELSE snapshot
    /\ xt' = [xt EXCEPT ![FirstFree] =
                [FreeExit EXCEPT !.pc = "start", !.sym = tt.sym, !.reason = tt.reason,
                                 !.via = "tick"]]
    /\ tt' = IdleTick
    /\ UNCHANGED <<kill, lock, lock_by, open_guard, counter, config, store_creds, sectorVars,
                   memVars, et, mt, bt, ot, brokerVars, workerVars, fnVars, cfgVars, histVars, boots>>

(* ========================= Order updates =============================== *)
\* _on_order_update_unsafe for a COMPLETE event of order oid with average_price avg
OnOrderUpdate(oid, avg) ==
    /\ oid \in 1..Len(orderLog)
    /\ avg > 0
    /\ ot.pc = "idle"
    /\ LET s == orderLog[oid].sym
           ref == positions[s]
       IN /\ ref # 0
          /\ pos[ref].entry_order_id = oid
          /\ LET p0 == [pos[ref] EXCEPT !.entry_price = avg]
                 \* "cfg_x_pct or pos.x_pct": a zero echo reads a missing attribute
                 raises == p0.cfg_target_pct = 0 \/ p0.cfg_sl_pct = 0 \/ p0.cfg_tsl_pct = 0
                 p1 == [p0 EXCEPT
                          !.target_price = TargetLevel(p0.side, avg, p0.cfg_target_pct),
                          !.sl_price = StopLevel(p0.side, avg, p0.cfg_sl_pct),
                          !.highest = IF p0.side = "BUY" THEN avg ELSE @,
                          !.lowest = IF p0.side = "SELL" THEN avg ELSE @,
                          !.tsl_pct = p0.cfg_tsl_pct]
             IN IF p0.product = "MIS" /\ raises
                THEN /\ pos' = [pos EXCEPT ![ref] = p0]
                     /\ ot' = ot
                ELSE LET p == IF p0.product = "MIS" THEN p1 ELSE p0 IN
                     /\ pos' = [pos EXCEPT ![ref] = p]
                     /\ ot' = [pc |-> "upsert", sym |-> s, pay |-> p]
    /\ UNCHANGED <<storeVars, sectorVars, positions, ticks, exit_inflight, exit_signal_sent,
                   eng_ready, et, xt, tt, mt, bt, brokerVars, workerVars, fnVars, cfgVars, histVars, boots>>

\* the snapshot write of the order update lands
OrderUpdate_upsert(o) ==
    /\ ot.pc = "upsert"
    /\ snapshot' = IF o = "ok" THEN [snapshot EXCEPT ![ot.sym] = ot.pay] ELSE snapshot
    /\ ot' = IdleOrderUpdate
    /\ UNCHANGED <<kill, lock, lock_by, open_guard, counter, config, store_creds, sectorVars,
                   memVars, et, xt, tt, mt, bt, brokerVars, workerVars, fnVars, cfgVars, histVars, boots>>

(* ============================ Exit path ================================ *)
Opposite(side) == IF side = "BUY" THEN "SELL" ELSE "BUY"

\* outer finally of _exit_position: both exit flags are cleared
ClearFlags(s) ==
    /\ exit_inflight' = [exit_inflight EXCEPT ![s] = FALSE]
    /\ exit_signal_sent' = [exit_signal_sent EXCEPT ![s] = FALSE]

\* _exit_position starts running (task created by a tick or by the bulk exit)
Exit_start(x) ==
    /\ xt[x].pc = "start"
    /\ LET s == xt[x].sym
           ref == positions[s]
       IN IF ref = 0 \/ pos[ref].status \notin ActiveStatus
          THEN /\ ClearFlags(s)
               /\ xt' = [xt EXCEPT ![x] = FreeExit]
          ELSE /\ xt' = [xt EXCEPT ![x] = [@ EXCEPT !.pc = "acquire", !.ref = ref]]
               /\ UNCHANGED <<exit_inflight, exit_signal_sent>>
    /\ UNCHANGED <<storeVars, sectorVars, positions, pos, ticks, eng_ready,
                   et, tt, mt, bt, ot, brokerVars, workerVars, fnVars, cfgVars, histVars, boots>>

\* await store.acquire_lock(.., "exit", ttl_ms=2500); on success status EXITING
Exit_acquire_lock(x) ==
    /\ xt[x].pc = "acquire"
    /\ LET s == xt[x].sym
           ref == xt[x].ref
           lk == LuaLockResult(Exit(s))
       IN /\ lock' = LuaLockEffect(Exit(s))
          /\ lock_by' = LuaLockHolder(Exit(s), x)
          /\ IF lk # 1
             THEN /\ ClearFlags(s)
                  /\ xt' = [xt EXCEPT ![x] = FreeExit]
                  /\ pos' = pos
             ELSE LET p == [pos[ref] EXCEPT !.status = "EXITING",
                                            !.exit_reason = xt[x].reason]
                  IN /\ pos' = [pos EXCEPT ![ref] = p]
                     /\ xt' = [xt EXCEPT ![x] = [@ EXCEPT !.pc = "upsert", !.pay = p]]
                     /\ UNCHANGED <<exit_inflight, exit_signal_sent>>
    /\ UNCHANGED <<kill, open_guard, snapshot, counter, config, store_creds, sectorVars,
                   positions, ticks, eng_ready, et, tt, mt, bt, ot, brokerVars, workerVars, fnVars, cfgVars, histVars, boots>>

\* the EXITING snapshot write lands; the exit order is submitted
Exit_upsert_position(x, o) ==
    /\ xt[x].pc = "upsert"
    /\ snapshot' = IF o = "ok" THEN [snapshot EXCEPT ![xt[x].sym] = xt[x].pay] ELSE snapshot
    /\ xt' = [xt EXCEPT ![x] = [@ EXCEPT !.pc = "place", !.pay = NoPos]]
    /\ UNCHANGED <<kill, lock, lock_by, open_guard, counter, config, store_creds, sectorVars,
                   memVars, et, tt, mt, bt, ot, brokerVars, workerVars, fnVars, cfgVars, histVars, boots>>

\* _place_order for the exit: the Order Worker ran kite.place_order
Exit_place_order(x, o) ==
    /\ xt[x].pc = "place"
    /\ LET s == xt[x].sym
           ref == xt[x].ref
       IN IF o = "ok"
          THEN /\ BrokerAccept("exit", s, Opposite(pos[ref].side), pos[ref].qty, ref)
               /\ pos' = [pos EXCEPT ![ref] = [@ EXCEPT !.exit_order_id = Len(orderLog) + 1,
                                                        !.status = "CLOSED"]]
               /\ xt' = [xt EXCEPT ![x] = [@ EXCEPT !.pc = "delete", !.ok = TRUE]]
          ELSE /\ xt' = [xt EXCEPT ![x] = [@ EXCEPT !.pc = "set_kill"]]
               /\ UNCHANGED <<orderLog, brokerNet, pos>>
    /\ UNCHANGED <<storeVars, sectorVars, positions, ticks, exit_inflight, exit_signal_sent,
                   eng_ready, et, tt, mt, bt, ot, attempts, workerVars, fnVars, cfgVars, histVars, boots>>

\* _place_order except-branch: await store.set_kill(True), re-raise;
\* _exit_position marks the position ERROR and writes the snapshot
Exit_set_kill(x) ==
    /\ xt[x].pc = "set_kill"
    /\ kill' = TRUE
    /\ LET p == [pos[xt[x].ref] EXCEPT !.status = "ERROR", !.exit_reason = "EXIT_ORDER_FAIL"]
       IN /\ pos' = [pos EXCEPT ![xt[x].ref] = p]
          /\ xt' = [xt EXCEPT ![x] = [@ EXCEPT !.pc = "upsert_err", !.pay = p]]
    /\ UNCHANGED <<lock, lock_by, open_guard, snapshot, counter, config, store_creds, sectorVars,
                   positions, ticks, exit_inflight, exit_signal_sent, eng_ready,
                   et, tt, mt, bt, ot, brokerVars, workerVars, fnVars, cfgVars, histVars, boots>>

\* await store.delete_position, then the memory entry of the symbol is removed;
\* a failing delete skips the removal
Exit_delete_position(x, o) ==
    /\ xt[x].pc = "delete"
    /\ IF o = "ok"
       THEN /\ snapshot' = [snapshot EXCEPT ![xt[x].sym] = NoPos]
            /\ positions' = [positions EXCEPT ![xt[x].sym] = 0]
            /\ xt' = [xt EXCEPT ![x] = [@ EXCEPT !.pc = "alert_status"]]
       ELSE /\ xt' = [xt EXCEPT ![x] = [@ EXCEPT !.pc = "clear_open"]]
            /\ UNCHANGED <<snapshot, positions>>
    /\ UNCHANGED <<kill, lock, lock_by, open_guard, counter, config, store_creds, sectorVars,
                   pos, ticks, exit_inflight, exit_signal_sent, eng_ready,
                   et, tt, mt, bt, ot, brokerVars, workerVars, fnVars, cfgVars, histVars, boots>>

\* await store.update_alert_status (alert history), then the UI broadcast
Exit_update_alert_status(x) ==
    /\ xt[x].pc = "alert_status"
    /\ xt' = [xt EXCEPT ![x] = [@ EXCEPT !.pc = "clear_open"]]
    /\ UNCHANGED <<storeVars, sectorVars, memVars, et, tt, mt, bt, ot, brokerVars, workerVars, fnVars, cfgVars, histVars, boots>>

\* the ERROR snapshot write lands
Exit_upsert_error(x, o) ==
    /\ xt[x].pc = "upsert_err"
    /\ snapshot' = IF o = "ok" THEN [snapshot EXCEPT ![xt[x].sym] = xt[x].pay] ELSE snapshot
    /\ xt' = [xt EXCEPT ![x] = [@ EXCEPT !.pc = "clear_open", !.pay = NoPos]]
    /\ UNCHANGED <<kill, lock, lock_by, open_guard, counter, config, store_creds, sectorVars,
                   memVars, et, tt, mt, bt, ot, brokerVars, workerVars, fnVars, cfgVars, histVars, boots>>

\* inner finally: await store.clear_open
Exit_clear_open(x, o) ==
    /\ xt[x].pc = "clear_open"
    /\ open_guard' = IF o = "ok" THEN [open_guard EXCEPT ![xt[x].sym] = 0] ELSE open_guard
    /\ xt' = [xt EXCEPT ![x] = [@ EXCEPT !.pc = "release"]]
    /\ UNCHANGED <<kill, lock, lock_by, snapshot, counter, config, store_creds, sectorVars,
                   memVars, et, tt, mt, bt, ot, brokerVars, workerVars, fnVars, cfgVars, histVars, boots>>

\* finally: await store.release_lock, outer finally: flags cleared, coroutine ends
Exit_release_lock(x, o) ==
    /\ xt[x].pc = "release"
    /\ lock' = IF o = "ok" THEN Released(lock, Exit(xt[x].sym)) ELSE lock
    /\ lock_by' = IF lock'[Exit(xt[x].sym)] THEN lock_by ELSE Unheld(Exit(xt[x].sym))
    /\ ClearFlags(xt[x].sym)
    /\ xt' = [xt EXCEPT ![x] = FreeExit]
    /\ UNCHANGED <<kill, open_guard, snapshot, counter, config, store_creds, sectorVars,
                   positions, pos, ticks, eng_ready, et, tt, mt, bt, ot, brokerVars, workerVars, fnVars, cfgVars, histVars, boots>>

(* ========================= Manual square-off =========================== *)
\* manual_squareoff_zerodha: memory fast path (runs _exit_position inline up to
\* its lock request) or the start of the broker-positions fallback
ManualReturn == [IdleManual EXCEPT !.calls = mt.calls]

ManualSquareoff(s) ==
    /\ mt.pc = "idle"
    /\ mt.calls + bt.calls < MaxSquareoff
    /\ LET ref == positions[s] IN
       IF ref # 0 /\ pos[ref].status = "OPEN"
       THEN /\ FreeSlots # {}
            /\ xt' = [xt EXCEPT ![FirstFree] =
                        [FreeExit EXCEPT !.pc = "acquire", !.sym = s, !.reason = "MANUAL",
                                         !.ref = ref, !.via = "manual"]]
            /\ mt' = [mt EXCEPT !.calls = @ + 1]
       ELSE /\ mt' = [mt EXCEPT !.pc = IF eng_ready THEN "positions" ELSE "configure",
                                 !.sym = s, !.calls = @ + 1]
            /\ xt' = xt
    /\ UNCHANGED <<storeVars, sectorVars, memVars, et, tt, bt, ot, brokerVars, workerVars, fnVars, cfgVars, histVars, boots>>

\* _ensure_kite_ready -> configure_kite
Manual_configure_kite ==
    /\ mt.pc = "configure"
    /\ eng_ready' = store_creds
    /\ mt' = IF store_creds THEN [mt EXCEPT !.pc = "positions"]
             ELSE ManualReturn
    /\ UNCHANGED <<storeVars, sectorVars, positions, pos, ticks, exit_inflight,
                   exit_signal_sent, et, xt, tt, bt, ot, brokerVars, workerVars, fnVars, cfgVars, histVars, boots>>

\* await _kite_positions(): the broker's net quantity decides what is placed
Manual_kite_positions(o) ==
    /\ mt.pc = "positions"
    /\ mt' = IF o = "fail" THEN ManualReturn
             ELSE IF brokerNet[mt.sym] = 0 THEN ManualReturn
             ELSE [mt EXCEPT !.pc = "place",
                             !.side = IF brokerNet[mt.sym] > 0 THEN "SELL" ELSE "BUY",
                             !.qty = IF brokerNet[mt.sym] > 0 THEN brokerNet[mt.sym]
                                     ELSE 0 - brokerNet[mt.sym]]
    /\ UNCHANGED <<storeVars, sectorVars, memVars, et, xt, tt, bt, ot, brokerVars, workerVars, fnVars, cfgVars, histVars, boots>>

\* _place_order of the fallback: the reverse order for the net quantity
Manual_place_order(o) ==
    /\ mt.pc = "place"
    /\ IF o = "ok"
       THEN /\ BrokerAccept("exit", mt.sym, mt.side, mt.qty, 0)
            /\ mt' = ManualReturn
       ELSE /\ mt' = [mt EXCEPT !.pc = "set_kill"]
            /\ UNCHANGED <<orderLog, brokerNet>>
    /\ UNCHANGED <<storeVars, sectorVars, memVars, et, xt, tt, bt, ot, attempts, workerVars, fnVars, cfgVars, histVars, boots>>

\* _place_order except-branch of the fallback
Manual_set_kill ==
    /\ mt.pc = "set_kill"
    /\ kill' = TRUE
    /\ mt' = ManualReturn
    /\ UNCHANGED <<lock, lock_by, open_guard, snapshot, counter, config, store_creds, sectorVars,
                   memVars, et, xt, tt, bt, ot, brokerVars, workerVars, fnVars, cfgVars, histVars, boots>>

(* ========================== Bulk square-off ============================ *)
OpenSymbols == {s \in Symbols : positions[s] # 0 /\ pos[positions[s]].status = "OPEN"}

\* exit_all_open_positions: symbols snapshot, then await store.is_kill
ExitAll ==
    /\ bt.pc = "idle"
    /\ mt.calls + bt.calls < MaxSquareoff
    /\ OpenSymbols # {}
    /\ bt' = [pc |-> "is_kill", syms |-> OpenSymbols, calls |-> bt.calls + 1]
    /\ UNCHANGED <<storeVars, sectorVars, memVars, et, xt, tt, mt, ot, brokerVars, workerVars, fnVars, cfgVars, histVars, boots>>

RECURSIVE Spawn(_, _, _)
Spawn(tasks, syms, reason) ==
    IF syms = {} THEN tasks
    ELSE LET s == CHOOSE a \in syms : TRUE
             free == {x \in ExitTasks : tasks[x].pc = "free"}
             x == CHOOSE a \in free : \A b \in free : a <= b
         IN Spawn([tasks EXCEPT ![x] = [FreeExit EXCEPT !.pc = "start", !.sym = s,
                                                        !.reason = reason, !.via = "bulk"]],
                  syms \ {s}, reason)

\* exit_all_open_positions after is_kill: one exit task per snapshotted symbol
ExitAll_is_kill(o) ==
    /\ bt.pc = "is_kill"
    /\ IF kill /\ o = "ok"
       THEN xt' = xt
       ELSE /\ Cardinality(FreeSlots) >= Cardinality(bt.syms)
            /\ xt' = Spawn(xt, bt.syms, "AUTO_SQ_OFF")
    /\ bt' = [IdleBulk EXCEPT !.calls = bt.calls]
    /\ UNCHANGED <<storeVars, sectorVars, memVars, et, tt, mt, ot, brokerVars, workerVars, fnVars, cfgVars, histVars, boots>>

(* ============================ Environment ============================== *)
\* a lock key reaches its TTL (2000 ms entry, 2500 ms exit)
LockExpire(k) ==
    /\ lock[k]
    /\ lock' = [lock EXCEPT ![k] = FALSE]
    /\ lock_by' = Unheld(k)
    /\ UNCHANGED <<kill, open_guard, snapshot, counter, config, store_creds, sectorVars,
                   memVars, taskVars, brokerVars, workerVars, fnVars, cfgVars, histVars, boots>>

\* the open-guard key reaches its TTL (8 h)
OpenGuardExpire(s) ==
    /\ open_guard[s] # 0
    /\ open_guard' = [open_guard EXCEPT ![s] = 0]
    /\ UNCHANGED <<kill, lock, lock_by, snapshot, counter, config, store_creds, sectorVars,
                   memVars, taskVars, brokerVars, workerVars, fnVars, cfgVars, histVars, boots>>

\* POST /api/kill-switch
ApiKill(enabled) ==
    /\ kill # enabled
    /\ kill' = enabled
    /\ UNCHANGED <<lock, lock_by, open_guard, snapshot, counter, config, store_creds, sectorVars,
                   memVars, taskVars, brokerVars, workerVars, fnVars, cfgVars, histVars, boots>>

\* the user logs in at the broker: credentials and access token are saved
Login ==
    /\ ~store_creds
    /\ store_creds' = TRUE
    /\ UNCHANGED <<kill, lock, lock_by, open_guard, snapshot, counter, config, sectorVars,
                   memVars, taskVars, brokerVars, workerVars, fnVars, cfgVars, histVars, boots>>

(* ============================ Order Worker ============================= *)
WorkerCalls == {b \in broker_inflight : b.by = "worker"}
\* the event loop is not inside a blocking call
LoopFree == \A b \in broker_inflight : b.by # "loop"

\* configure_kite: credentials are loaded, then order_worker.start() creates
\* the _run task unless it exists
ConfigureKite ==
    /\ LoopFree
    /\ ow_task = "none" \/ eng_ready # store_creds
    /\ eng_ready' = store_creds
    /\ ow_task' = IF ow_task = "none" THEN "get" ELSE ow_task
    /\ UNCHANGED <<storeVars, sectorVars, positions, pos, ticks, exit_inflight,
                   exit_signal_sent, taskVars, brokerVars,
                   ow_q, ow_fut, ow_started, broker_inflight, fnVars, cfgVars, histVars, boots>>

\* OrderWorker.submit: a future is created and queued with the call; the
\* callers reach it after _ensure_kite_ready
Submit(c) ==
    /\ LoopFree
    /\ eng_ready
    /\ ow_fut[c] = "none"
    /\ \A b \in Calls : b < c => ow_fut[b] # "none"
    /\ ow_q' = Append(ow_q, c)
    /\ ow_fut' = [ow_fut EXCEPT ![c] = "pending"]
    /\ UNCHANGED <<storeVars, sectorVars, memVars, taskVars, brokerVars,
                   ow_task, ow_started, broker_inflight, fnVars, cfgVars, histVars, boots>>

\* the submitter stops waiting (its task is cancelled): the future is cancelled
Cancel(c) ==
    /\ LoopFree
    /\ ow_fut[c] = "pending"
    /\ ow_fut' = [ow_fut EXCEPT ![c] = "cancelled"]
    /\ UNCHANGED <<storeVars, sectorVars, memVars, taskVars, brokerVars,
                   ow_q, ow_task, ow_started, broker_inflight, fnVars, cfgVars, histVars, boots>>

\* _run: q.get() returns the oldest submission, asyncio.to_thread starts its call
Run_get ==
    /\ LoopFree
    /\ ow_task = "get"
    /\ ow_q # <<>>
    /\ ow_q' = Tail(ow_q)
    /\ ow_task' = "call"
    /\ ow_started' = Append(ow_started, Head(ow_q))
    /\ broker_inflight' = broker_inflight \cup {[by |-> "worker", call |-> Head(ow_q)]}
    /\ UNCHANGED <<storeVars, sectorVars, memVars, taskVars, brokerVars, ow_fut, fnVars, cfgVars, histVars, boots>>

\* the call returns or raises in its thread
Thread_return(o) ==
    /\ ow_task = "call"
    /\ ow_task' = IF o = "ok" THEN "returned" ELSE "raised"
    /\ UNCHANGED <<storeVars, sectorVars, memVars, taskVars, brokerVars,
                   ow_q, ow_fut, ow_started, broker_inflight, fnVars, cfgVars, histVars, boots>>

\* faulty variant: an exception of the call ends the _run task
Run_resolve_dies ==
    /\ LoopFree
    /\ ow_task \in {"returned", "raised"}
    /\ LET c == (CHOOSE b \in WorkerCalls : TRUE).call IN
       /\ ow_fut' = IF ow_fut[c] = "cancelled" \/ ow_task = "raised" THEN ow_fut
                    ELSE [ow_fut EXCEPT ![c] = "result"]
       /\ ow_task' = IF ow_task = "raised" THEN "dead" ELSE "get"
    /\ broker_inflight' = broker_inflight \ WorkerCalls
    /\ UNCHANGED <<storeVars, sectorVars, memVars, taskVars, brokerVars,
                   ow_q, ow_started, fnVars, cfgVars, histVars, boots>>

\* _run resumes: the future gets the result or the exception unless it was
\* cancelled, and the loop goes back to q.get()
Run_resolve ==
    /\ LoopFree
    /\ ow_task \in {"returned", "raised"}
    /\ LET c == (CHOOSE b \in WorkerCalls : TRUE).call IN
       ow_fut' = IF ow_fut[c] = "cancelled" THEN ow_fut
                 ELSE [ow_fut EXCEPT ![c] = IF ow_task = "returned" THEN "result"
                                            ELSE "exception"]
    /\ ow_task' = "get"
    /\ broker_inflight' = broker_inflight \ WorkerCalls
    /\ UNCHANGED <<storeVars, sectorVars, memVars, taskVars, brokerVars,
                   ow_q, ow_started, fnVars, cfgVars, histVars, boots>>

\* on_chartink_alert, quote fallback: with no tick cached the coroutine calls
\* kite.quote itself, on the event loop
Quote_begin(s) ==
    /\ LoopFree
    /\ eng_ready
    /\ ticks[s] = 0
    /\ broker_inflight' = broker_inflight \cup {[by |-> "loop", call |-> 0]}
    /\ UNCHANGED <<storeVars, sectorVars, memVars, taskVars, brokerVars,
                   ow_q, ow_task, ow_fut, ow_started, fnVars, cfgVars, histVars, boots>>

\* kite.quote returns (q = 0: it failed or had no price)
Quote_end(s, q) ==
    /\ ~LoopFree
    /\ ticks' = QuoteFallback(s, eng_ready, q)
    /\ broker_inflight' = {b \in broker_inflight : b.by # "loop"}
    /\ UNCHANGED <<storeVars, sectorVars, positions, pos, exit_inflight, exit_signal_sent,
                   eng_ready, taskVars, brokerVars,
                   ow_q, ow_task, ow_fut, ow_started, fnVars, cfgVars, histVars, boots>>

(* ============================ Alert history ============================ *)
\* "time" of the webhook payload: 0 stands for "", 100 for a triggered_at string
Timestamps == {0, 100}

\* save_alert: payload["time"] defaults to the clock reading, to the second
PayloadTime(ts) == IF ts = 0 THEN now ELSE ts

HasRow(list, t) == \E i \in 1..Len(list) : list[i].time = t

\* a.update(payload) on every record of the same alert_name and time
Updated(list, t, res) ==
    [i \in 1..Len(list) |-> IF list[i].time = t THEN [list[i] EXCEPT !.result = res]
                            ELSE list[i]]

\* chartink_webhook: save_alert with status RECEIVED is called; lrange returns
Save_begin(d, ts) ==
    /\ ht[d].pc = "idle"
    /\ et[d].pc = "is_kill"
    /\ ht' = [ht EXCEPT ![d] = [pc |-> "write1", ts |-> ts, time |-> PayloadTime(ts),
                                first |-> PayloadTime(ts), list |-> alerts]]
    /\ UNCHANGED <<storeVars, sectorVars, memVars, taskVars, brokerVars, workerVars, fnVars, cfgVars,
                   alerts, now, boots>>

\* save_alert keeps the newest 200 records: ltrim(key, 0, 199)
HistoryCap == 200

\* first or second save_alert call of the webhook
SavePhase(d) == IF ht[d].pc \in {"write1", "rpush1", "trim1"} THEN 1 ELSE 2
SaveResult(d) ==
    IF SavePhase(d) = 1 THEN <<et[d].sym, "RECEIVED", "">>
    ELSE <<et[d].sym, et[d].status, et[d].reason>>
Saved(d) == IF SavePhase(d) = 1 THEN "saved1" ELSE "saved2"

\* save_alert, record found in the list read: await redis.delete(key)
Save_delete(d) ==
    /\ ht[d].pc \in {"write1", "write2"}
    /\ HasRow(ht[d].list, ht[d].time)
    /\ alerts' = <<>>
    /\ ht' = [ht EXCEPT ![d] = [@ EXCEPT !.pc = IF SavePhase(d) = 1 THEN "rpush1" ELSE "rpush2"]]
    /\ UNCHANGED <<storeVars, sectorVars, memVars, taskVars, brokerVars, workerVars, fnVars, cfgVars, now, boots>>

\* save_alert: await redis.rpush(key, *new_list): the list read, with the
\* record updated, is appended to whatever the key holds by now
Save_rpush(d) ==
    /\ ht[d].pc \in {"rpush1", "rpush2"}
    /\ alerts' = alerts \o Updated(ht[d].list, ht[d].time, SaveResult(d))
    /\ ht' = [ht EXCEPT ![d] = [@ EXCEPT !.pc = Saved(d), !.list = <<>>]]
    /\ UNCHANGED <<storeVars, sectorVars, memVars, taskVars, brokerVars, workerVars, fnVars, cfgVars, now, boots>>

\* save_alert, no record found: await redis.lpush(key, payload)
Save_lpush(d) ==
    /\ ht[d].pc \in {"write1", "write2"}
    /\ ~HasRow(ht[d].list, ht[d].time)
    /\ alerts' = <<[time |-> ht[d].time, result |-> SaveResult(d)]>> \o alerts
    /\ ht' = [ht EXCEPT ![d] = [@ EXCEPT !.pc = IF SavePhase(d) = 1 THEN "trim1" ELSE "trim2",
                                         !.list = <<>>]]
    /\ UNCHANGED <<storeVars, sectorVars, memVars, taskVars, brokerVars, workerVars, fnVars, cfgVars, now, boots>>

\* save_alert: await redis.ltrim(key, 0, 199)
Save_ltrim(d) ==
    /\ ht[d].pc \in {"trim1", "trim2"}
    /\ alerts' = SubSeq(alerts, 1, Min(Len(alerts), HistoryCap))
    /\ ht' = [ht EXCEPT ![d] = [@ EXCEPT !.pc = Saved(d)]]
    /\ UNCHANGED <<storeVars, sectorVars, memVars, taskVars, brokerVars, workerVars, fnVars, cfgVars, now, boots>>

\* the store calls of save_alert after its lrange
SaveSteps(D) ==
    \/ \E d \in D : Save_delete(d)
    \/ \E d \in D : Save_rpush(d)
    \/ \E d \in D : Save_lpush(d)
    \/ \E d \in D : Save_ltrim(d)

\* chartink_webhook: on_chartink_alert is called once the RECEIVED record is saved
Hook_process(d, o) ==
    /\ ht[d].pc = "saved1"
    /\ Alert_is_kill(d, o)

\* chartink_webhook: on_chartink_alert returned; save_alert with the results is
\* called and lrange returns
Save_result_begin(d) ==
    /\ ht[d].pc = "saved1"
    /\ et[d].pc = "done"
    /\ ht' = [ht EXCEPT ![d] = [@ EXCEPT !.pc = "write2", !.time = PayloadTime(ht[d].ts),
                                         !.list = alerts]]
    /\ UNCHANGED <<storeVars, sectorVars, memVars, taskVars, brokerVars, workerVars, fnVars, cfgVars,
                   alerts, now, boots>>

\* a second of wall-clock time passes
ClockTick ==
    /\ now < MaxClock
    /\ now' = now + 1
    /\ UNCHANGED <<storeVars, sectorVars, memVars, taskVars, brokerVars, workerVars, fnVars, cfgVars,
                   alerts, ht, boots>>

(* ============================== Restart ================================ *)
\* rehydrate_open_positions: the rows that are rebuilt
Restores(row) == row.status \in ActiveStatus /\ row.qty > 0

\* faulty variant: the running extremes are taken as stored
Rehydrated_no_seed(row) == [row EXCEPT !.status = "OPEN"]

\* rehydrate_open_positions: the Position built from a row
Rehydrated(row) ==
    LET p == [row EXCEPT !.status = "OPEN"] IN
    IF p.product = "MIS"
    THEN [p EXCEPT !.highest = IF @ <= 0 /\ p.entry_price > 0 THEN p.entry_price ELSE @,
                   !.lowest = IF @ <= 0 /\ p.entry_price > 0 THEN p.entry_price ELSE @]
    ELSE p

\* the server process is restarted between two alerts: the coroutines and the
\* engine's memory are gone, the store is kept; ensure_engine builds a new
\* engine, configure_kite loads the credentials and rehydrate_open_positions
\* reads the positions hash
Restart ==
    /\ boots < MaxRestarts
    /\ \A d \in Deliveries : et[d].pc \in {"idle", "done"}
    /\ boots' = boots + 1
    /\ positions' = [s \in Symbols |-> IF Restores(snapshot[s]) THEN snapshot[s].trade_id ELSE 0]
    /\ pos' = [d \in Deliveries |->
                 IF \E s \in Symbols : Restores(snapshot[s]) /\ snapshot[s].trade_id = d
                 THEN Rehydrated(snapshot[CHOOSE s \in Symbols :
                                            Restores(snapshot[s]) /\ snapshot[s].trade_id = d])
                 ELSE NoPos]
    /\ ticks' = [s \in Symbols |-> 0]
    /\ exit_inflight' = [s \in Symbols |-> FALSE]
    /\ exit_signal_sent' = [s \in Symbols |-> FALSE]
    /\ eng_ready' = store_creds
    /\ sym_pct' = [s \in Symbols |-> NoPct]
    /\ sector_sum' = [c \in Sectors |-> 0]
    /\ sector_cnt' = [c \in Sectors |-> 0]
    /\ sector_order' = <<>>
    /\ xt' = [x \in ExitTasks |-> FreeExit]
    /\ tt' = IdleTick
    /\ mt' = [IdleManual EXCEPT !.calls = mt.calls]
    /\ bt' = [IdleBulk EXCEPT !.calls = bt.calls]
    /\ ot' = IdleOrderUpdate
    /\ ow_q' = <<>>
    /\ ow_task' = IF store_creds THEN "get" ELSE "none"
    /\ broker_inflight' = {}
    /\ UNCHANGED <<storeVars, et, brokerVars, ow_fut, ow_started, fnVars, cfgVars, histVars>>

(* ========================== Specifications ============================= *)
Ok == {"ok"}

\* the guards of on_chartink_alert and _try_enter up to the order
EntryGuardSteps(D, syms, so, quotes, windows) ==
    \/ \E d \in D, s \in syms : Webhook(d, s)
    \/ \E d \in D, o \in so : Alert_is_kill(d, o)
    \/ \E d \in D, w \in windows, q \in quotes : Alert_get_cfg(d, w, q)
    \/ \E d \in D, q \in quotes : TryEnter_get_open(d, q)
    \/ \E d \in D, q \in quotes : TryEnter_acquire_lock(d, q)
    \/ \E d \in D : TryEnter_allow_trade(d)

\* order placement and what follows it
EntryOrderSteps(D, so, bo, quotes) ==
    \/ \E d \in D, o \in bo : TryEnter_place_order(d, o)
    \/ \E d \in D, o \in so : TryEnter_mark_open(d, o)
    \/ \E d \in D, o \in so : TryEnter_upsert_position(d, o)
    \/ \E d \in D, o \in so, q \in quotes : TryEnter_release_lock(d, o, q)

TickSteps(syms, prices, so) ==
    \/ \E s \in syms, ltp \in prices : OnTick(s, ltp, 0)
    \/ \E o \in so : Tick_upsert_met(o)
    \/ \E o \in so : Tick_upsert_exiting(o)

ExitSteps(X, so, bo) ==
    \/ \E x \in X : Exit_start(x)
    \/ \E x \in X : Exit_acquire_lock(x)
    \/ \E x \in X, o \in so : Exit_upsert_position(x, o)
    \/ \E x \in X, o \in bo : Exit_place_order(x, o)
    \/ \E x \in X, o \in so : Exit_delete_position(x, o)
    \/ \E x \in X : Exit_update_alert_status(x)
    \/ \E x \in X, o \in so : Exit_clear_open(x, o)
    \/ \E x \in X, o \in so : Exit_release_lock(x, o)

ExitFailSteps(X, so) ==
    \/ \E x \in X : Exit_set_kill(x)
    \/ \E x \in X, o \in so : Exit_upsert_error(x, o)

SquareoffSteps(syms, so) ==
    \/ \E s \in syms : ManualSquareoff(s)
    \/ \E o \in so : Manual_kite_positions(o)
    \/ \E o \in Outcomes : Manual_place_order(o)
    \/ Manual_set_kill
    \/ ExitAll
    \/ \E o \in so : ExitAll_is_kill(o)

\* ---- SpecEntry: deliveries of an alert, with failing store and broker calls ----
EntryConfigs ==
    {[AlertConfig EXCEPT !.trade_limit_per_day = 1, !.sector_filter_on = TRUE],
     [AlertConfig EXCEPT !.trade_limit_per_day = 2, !.sector_filter_on = TRUE],
     [AlertConfig EXCEPT !.direction = "SHORT", !.product = "CNC"]}

\* symbols named by the deliveries: one with a sector, one without
EntrySymbols == {"SBIN", "IDEA"}

\* the user has not logged in at the broker yet
InitEntry ==
    /\ config \in EntryConfigs
    /\ store_creds = FALSE
    /\ InitCommon

NextEntry ==
    \/ EntryGuardSteps(Deliveries, EntrySymbols, Outcomes, {0, 2000}, BOOLEAN)
    \/ EntryOrderSteps(Deliveries, Outcomes, Outcomes, {0, 2000})
    \/ \E d \in Deliveries : TryEnter_configure_kite(d)
    \/ \E d \in Deliveries, w \in BOOLEAN : TryEnter_wait_for_ltp(d, w)
    \/ \E d \in Deliveries : TryEnter_set_kill(d)
    \/ OnTick("SBIN", 2000, 1980)
    \/ \E s \in EntrySymbols : LockExpire(Entry(s))
    \/ \E s \in EntrySymbols : OpenGuardExpire(s)
    \/ ApiKill(FALSE)
    \/ Login

SpecEntry == InitEntry /\ [][NextEntry]_vars

\* ---- SpecRace: deliveries of one alert for one symbol, every call succeeding ----
InitRace ==
    /\ config = AlertConfig
    /\ store_creds = TRUE
    /\ InitCommon

NextRace ==
    \/ EntryGuardSteps(Deliveries, {"SBIN"}, Ok, {0}, {TRUE})
    \/ EntryOrderSteps(Deliveries, Ok, Ok, {0})
    \/ \E d \in Deliveries : TryEnter_wait_for_ltp(d, FALSE)
    \/ OnTick("SBIN", 2000, 0)
    \/ LockExpire(Entry("SBIN"))

SpecRace == InitRace /\ [][NextRace]_vars

\* ---- Spec: one entry, then ticks and concurrent exits ----
TickPrices == {2000, 2021}

Init ==
    /\ config = AlertConfig
    /\ store_creds = TRUE
    /\ InitCommon

Next ==
    \/ EntryGuardSteps({1}, {"SBIN"}, Ok, {0}, {TRUE})
    \/ EntryOrderSteps({1}, Ok, Ok, {0})
    \/ TickSteps({"SBIN"}, TickPrices, Ok)
    \/ ExitSteps(ExitTasks, Ok, Outcomes)
    \/ ExitFailSteps(ExitTasks, Ok)
    \/ SquareoffSteps({"SBIN"}, Ok)
    \/ LockExpire(Exit("SBIN"))

Spec == Init /\ [][Next]_vars

\* ---- SpecPrice: one INTRADAY position under ticks and order updates ----
PriceConfigs == {AlertConfig, [AlertConfig EXCEPT !.direction = "SHORT"]}
StreamPrices == {1985, 2000, 2012, 2021}
AvgPrices == {2000, 2012}

InitPrice ==
    /\ config \in PriceConfigs
    /\ store_creds = TRUE
    /\ InitCommon

NextPrice ==
    \/ EntryGuardSteps({1}, {"SBIN"}, Ok, {2000}, {TRUE})
    \/ EntryOrderSteps({1}, Ok, Ok, {2000})
    \/ TickSteps({"SBIN"}, StreamPrices, Ok)
    \/ \E oid \in 1..MaxAlerts, avg \in AvgPrices : OnOrderUpdate(oid, avg)
    \/ \E o \in Ok : OrderUpdate_upsert(o)
    \/ ExitSteps(ExitTasks, Ok, Ok)

SpecPrice == InitPrice /\ [][NextPrice]_vars

\* ---- SpecFill: entry-fill events for one INTRADAY position ----
FillConfigs ==
    {AlertConfig,
     [AlertConfig EXCEPT !.trailing_sl_pct = 0],
     [AlertConfig EXCEPT !.direction = "SHORT", !.trailing_sl_pct = 0]}
FillTicks == {2000, 2004}
FillPrices == {2000, 2004}

InitFill ==
    /\ config \in FillConfigs
    /\ store_creds = TRUE
    /\ InitCommon

NextFill ==
    \/ EntryGuardSteps({1}, {"SBIN"}, Ok, {2000}, {TRUE})
    \/ EntryOrderSteps({1}, Ok, Ok, {2000})
    \/ \E ltp \in FillTicks : OnTick("SBIN", ltp, 0)
    \/ \E oid \in 1..MaxAlerts, avg \in FillPrices : OnOrderUpdate(oid, avg)
    \/ \E o \in Outcomes : OrderUpdate_upsert(o)

SpecFill == InitFill /\ [][NextFill]_vars

\* ---- SpecNorm: the normalizers applied to a received string, then to their output ----
Pieces ==
    {<<"S">>, <<"n", "s", "e">>, <<":">>, <<"-", "E", "Q">>, <<".", "N", "S">>,
     <<" ">>, <<"tab">>, <<"zw">>, <<"_">>, <<"&">>, <<"-">>}

RECURSIVE Concat(_)
Concat(ps) == IF ps = <<>> THEN <<>> ELSE Head(ps) \o Concat(Tail(ps))

\* every concatenation of at most MaxPieces pieces
NormInputs ==
    {Concat(ps) : ps \in UNION {[1..n -> Pieces] : n \in 0..MaxPieces}}

Normalized(s) ==
    [store |-> norm_symbol(s), hook |-> normalize_symbol(s),
     alert |-> norm_alert_name(s), alert_hook |-> normalize_alert_name(s)]

InitNorm ==
    /\ config = AlertConfig
    /\ store_creds = TRUE
    /\ InitState
    /\ arg \in NormInputs
    /\ ret = <<>>

\* the string is normalized where it enters (webhook, engine, store key)
Normalize ==
    /\ ret = <<>>
    /\ ret' = <<Normalized(arg)>>
    /\ UNCHANGED <<storeVars, sectorVars, memVars, taskVars, brokerVars, workerVars, arg, cfgVars, histVars, boots>>

\* the normalized form is normalized again further down (each function on its own output)
Renormalize ==
    /\ Len(ret) = 1
    /\ ret' = Append(ret, [store |-> norm_symbol(ret[1].store),
                           hook |-> normalize_symbol(ret[1].hook),
                           alert |-> norm_alert_name(ret[1].alert),
                           alert_hook |-> normalize_alert_name(ret[1].alert_hook)])
    /\ UNCHANGED <<storeVars, sectorVars, memVars, taskVars, brokerVars, workerVars, arg, cfgVars, histVars, boots>>

NextNorm == Normalize \/ Renormalize

SpecNorm == InitNorm /\ [][NextNorm]_vars

\* ---- SpecLimit: concurrent deliveries against the daily limit, every call succeeding ----
LimitConfigs == {[AlertConfig EXCEPT !.trade_limit_per_day = n] : n \in {0, 1, 2}}

InitLimit ==
    /\ config \in LimitConfigs
    /\ store_creds = TRUE
    /\ InitCommon

NextLimit ==
    \/ EntryGuardSteps(Deliveries, EntrySymbols, Ok, {0}, {TRUE})
    \/ EntryOrderSteps(Deliveries, Ok, Ok, {0})
    \/ \E d \in Deliveries : TryEnter_wait_for_ltp(d, FALSE)
    \/ \E s \in EntrySymbols : OnTick(s, 2000, 0)

SpecLimit == InitLimit /\ [][NextLimit]_vars

\* ---- SpecBatch: one alert whose symbols are tried one after the other ----
BatchConfigs == {[AlertConfig EXCEPT !.trade_limit_per_day = n] : n \in {1, 2}}

\* on_chartink_alert: the loop takes the next symbol once _try_enter returned
Alert_next_symbol(d, s, q) ==
    /\ d > 1
    /\ et[d].pc = "idle"
    /\ et[d - 1].pc = "done"
    /\ et[d - 1].reason \notin {"KILL_SWITCH", "NO_CONFIG", "CFG_DISABLED", "OUTSIDE_ENTRY_WINDOW"}
    /\ \A e \in Deliveries : et[e].sym # s
    /\ LET t == TryEnterPrefix([et[d] EXCEPT !.sym = s])
       IN /\ SetTask(d, t)
          /\ ticks' = IF t.pc = "done" THEN QuoteFallback(s, eng_ready, q) ELSE ticks
    /\ UNCHANGED <<storeVars, sectorVars, positions, pos, exit_inflight, exit_signal_sent,
                   eng_ready, xt, tt, mt, bt, ot, brokerVars, workerVars, fnVars, cfgVars, histVars, boots>>

InitBatch ==
    /\ config \in BatchConfigs
    /\ store_creds = TRUE
    /\ InitCommon

NextBatch ==
    \/ EntryGuardSteps({1}, Symbols, Ok, {0}, {TRUE})
    \/ \E d \in Deliveries, s \in Symbols : Alert_next_symbol(d, s, 0)
    \/ \E d \in Deliveries \ {1} : TryEnter_get_open(d, 0)
    \/ \E d \in Deliveries \ {1} : TryEnter_acquire_lock(d, 0)
    \/ \E d \in Deliveries \ {1} : TryEnter_allow_trade(d)
    \/ EntryOrderSteps(Deliveries, Ok, Ok, {0})
    \/ \E d \in Deliveries, w \in BOOLEAN : TryEnter_wait_for_ltp(d, w)
    \/ \E s \in Symbols : OnTick(s, 2000, 0)

SpecBatch == InitBatch /\ [][NextBatch]_vars

\* ---- SpecWorker: submissions to the Order Worker and the quote fallback ----
InitWorker ==
    /\ config = AlertConfig
    /\ store_creds \in BOOLEAN
    /\ InitCommon

NextWorker ==
    \/ Login
    \/ ConfigureKite
    \/ \E c \in Calls : Submit(c)
    \/ \E c \in Calls : Cancel(c)
    \/ Run_get
    \/ \E o \in Outcomes : Thread_return(o)
    \/ Run_resolve
    \/ Quote_begin("SBIN")
    \/ \E q \in {0, 2000} : Quote_end("SBIN", q)

SpecWorker == InitWorker /\ [][NextWorker]_vars

\* the event loop runs every ready task, a broker call returns or times out
SpecWorkerLive ==
    /\ SpecWorker
    /\ SF_vars(Run_get)
    /\ WF_vars(\E o \in Outcomes : Thread_return(o))
    /\ SF_vars(Run_resolve)
    /\ WF_vars(\E q \in {0, 2000} : Quote_end("SBIN", q))

\* ---- SpecSector: ticks feeding the sector accumulator, alerts passing the gate ----
SectorConfigs ==
    {[AlertConfig EXCEPT !.sector_filter_on = TRUE, !.top_n_sector = 1],
     [AlertConfig EXCEPT !.sector_filter_on = TRUE, !.top_n_sector = 1, !.direction = "SHORT"]}
SectorTicks == {1980, 2000, 2020}
SectorCloses == {0, 2000}
\* last prices per symbol: SBIN also trades flat, the unmapped symbol only flat
SectorTicksOf(s) ==
    IF s = "SBIN" THEN SectorTicks
    ELSE IF s = "IDEA" THEN {2000} ELSE {1980, 2020}

InitSector ==
    /\ config \in SectorConfigs
    /\ store_creds = TRUE
    /\ InitCommon

NextSector ==
    \/ \E s \in Symbols, close \in SectorCloses :
          \E ltp \in SectorTicksOf(s) : OnTick(s, ltp, close)
    \/ \E s \in {"SBIN", "ITC", "IDEA"} : Webhook(1, s)
    \/ Alert_is_kill(1, "ok")
    \/ Alert_get_cfg(1, TRUE, 0)

SpecSector == InitSector /\ [][NextSector]_vars

\* ---- SpecDispatch: alerts under every dispatcher verdict, kill switch toggled ----
DispatchConfigs ==
    {[AlertConfig EXCEPT !.trade_limit_per_day = 1],
     [AlertConfig EXCEPT !.enabled = FALSE],
     NoConfig}

InitDispatch ==
    /\ config \in DispatchConfigs
    /\ store_creds = TRUE
    /\ InitCommon

NextDispatch ==
    \/ EntryGuardSteps(Deliveries, EntrySymbols, Outcomes, {0, 2000}, BOOLEAN)
    \/ EntryOrderSteps(Deliveries, Ok, Outcomes, {0})
    \/ \E d \in Deliveries : TryEnter_set_kill(d)
    \/ \E d \in Deliveries : TryEnter_wait_for_ltp(d, TRUE)
    \/ \E s \in EntrySymbols : OnTick(s, 2000, 0)
    \/ \E b \in BOOLEAN : ApiKill(b)

SpecDispatch == InitDispatch /\ [][NextDispatch]_vars

\* ---- SpecRaise: one alert, its symbols tried in turn, store calls that raise ----
InitRaise ==
    /\ config = AlertConfig
    /\ store_creds = TRUE
    /\ InitCommon

NextRaise ==
    \/ EntryGuardSteps({1}, EntrySymbols, Ok, {0}, {TRUE})
    \/ \E d \in Deliveries, s \in EntrySymbols : Alert_next_symbol(d, s, 0)
    \/ \E d \in Deliveries \ {1} : TryEnter_get_open(d, 0)
    \/ \E d \in Deliveries \ {1} : TryEnter_acquire_lock(d, 0)
    \/ \E d \in Deliveries \ {1} : TryEnter_allow_trade(d)
    \/ EntryOrderSteps(Deliveries, Ok, Outcomes, {0})
    \/ \E d \in Deliveries : TryEnter_set_kill(d)
    \/ \E d \in Deliveries, w \in BOOLEAN : TryEnter_wait_for_ltp(d, w)
    \/ \E s \in EntrySymbols : OnTick(s, 2000, 0)
    \/ \E d \in Deliveries : TryEnter_store_raises(d)
    \/ \E d \in Deliveries : Webhook_panic(d, Deliveries)

SpecRaise == InitRaise /\ [][NextRaise]_vars

\* ---- SpecHistory: deliveries of one alert and their records in the alert history ----
InitHistory ==
    /\ config = AlertConfig
    /\ store_creds = TRUE
    /\ InitCommon

NextHistory ==
    \/ \E d \in Deliveries, s \in EntrySymbols : Webhook(d, s)
    \/ \E d \in Deliveries, ts \in Timestamps : Save_begin(d, ts)
    \/ SaveSteps(Deliveries)
    \/ \E d \in Deliveries : Hook_process(d, "ok")
    \/ \E d \in Deliveries : Alert_get_cfg(d, TRUE, 0)
    \/ \E d \in Deliveries : TryEnter_get_open(d, 0)
    \/ \E d \in Deliveries : TryEnter_acquire_lock(d, 0)
    \/ \E d \in Deliveries : TryEnter_wait_for_ltp(d, TRUE)
    \/ \E d \in Deliveries : TryEnter_allow_trade(d)
    \/ EntryOrderSteps(Deliveries, Ok, Ok, {0})
    \/ OnTick("SBIN", 2000, 0)
    \/ \E d \in Deliveries : Save_result_begin(d)
    \/ ClockTick

SpecHistory == InitHistory /\ [][NextHistory]_vars

\* ---- SpecRehydrate: a position, its exits, and a restart of the process ----
RehydrateConfigs == {AlertConfig, [AlertConfig EXCEPT !.product = "CNC"]}
RehydrateTicks == {2000, 2024}

InitRehydrate ==
    /\ config \in RehydrateConfigs
    /\ store_creds = TRUE
    /\ InitCommon

NextRehydrate ==
    \/ EntryGuardSteps({1}, {"SBIN"}, Ok, {0}, {TRUE})
    \/ EntryOrderSteps({1}, Ok, Ok, {0})
    \/ TickSteps({"SBIN"}, RehydrateTicks, Ok)
    \/ ExitSteps(ExitTasks, Ok, Outcomes)
    \/ ExitFailSteps(ExitTasks, Ok)
    \/ LockExpire(Exit("SBIN"))
    \/ Restart

SpecRehydrate == InitRehydrate /\ [][NextRehydrate]_vars

\* ---- SpecSquareoff: Spec with the user switching the kill switch ----
NextSquareoff ==
    \/ Next
    \/ \E b \in BOOLEAN : ApiKill(b)

SpecSquareoff == Init /\ [][NextSquareoff]_vars

\* ---- SpecRelease: entries and exits of one symbol on every outcome of the ----
\* ---- critical sections; the release call itself reaches the store        ----
ReleaseTicks == {2000, 2024}
\* two deliveries of the alert: the second meets the limit, the lock or the kill switch
ReleaseDeliveries == {1, 2}

NextRelease ==
    \/ EntryGuardSteps(ReleaseDeliveries, {"SBIN"}, Outcomes, {0}, {TRUE})
    \/ \E d \in ReleaseDeliveries : TryEnter_configure_kite(d)
    \/ \E d \in ReleaseDeliveries, w \in BOOLEAN : TryEnter_wait_for_ltp(d, w)
    \/ \E d \in ReleaseDeliveries, o \in Outcomes : TryEnter_place_order(d, o)
    \/ \E d \in ReleaseDeliveries : TryEnter_set_kill(d)
    \/ \E d \in ReleaseDeliveries, o \in Outcomes : TryEnter_mark_open(d, o)
    \/ \E d \in ReleaseDeliveries, o \in Outcomes : TryEnter_upsert_position(d, o)
    \/ \E d \in ReleaseDeliveries : TryEnter_store_raises(d)
    \/ \E d \in ReleaseDeliveries : Webhook_panic(d, {d})
    \/ \E d \in ReleaseDeliveries : TryEnter_release_lock(d, "ok", 0)
    \/ TickSteps({"SBIN"}, ReleaseTicks, Ok)
    \/ \E x \in ExitTasks : Exit_start(x)
    \/ \E x \in ExitTasks : Exit_acquire_lock(x)
    \/ \E x \in ExitTasks, o \in Outcomes : Exit_upsert_position(x, o)
    \/ \E x \in ExitTasks, o \in Outcomes : Exit_place_order(x, o)
    \/ \E x \in ExitTasks, o \in Outcomes : Exit_delete_position(x, o)
    \/ \E x \in ExitTasks : Exit_update_alert_status(x)
    \/ \E x \in ExitTasks, o \in Outcomes : Exit_clear_open(x, o)
    \/ \E x \in ExitTasks : Exit_release_lock(x, "ok")
    \/ ExitFailSteps(ExitTasks, Outcomes)
    \/ ApiKill(FALSE)
    \/ Login

SpecRelease == InitEntry /\ [][NextRelease]_vars

\* ---- SpecCap: webhook deliveries over an alert history that is already full ----
\* a record of an earlier alert of the day
OldRecord == [time |-> 50, result |-> <<"SBIN", "ENTERED", "">>]

InitCap ==
    /\ config = [AlertConfig EXCEPT !.enabled = FALSE]
    /\ store_creds = TRUE
    /\ InitEngine
    /\ alerts = [i \in 1..HistoryCap |-> OldRecord]
    /\ arg = <<>>
    /\ ret = <<>>

NextCap ==
    \/ \E d \in Deliveries, s \in EntrySymbols : Webhook(d, s)
    \/ \E d \in Deliveries, ts \in Timestamps : Save_begin(d, ts)
    \/ SaveSteps(Deliveries)
    \/ \E d \in Deliveries : Hook_process(d, "ok")
    \/ \E d \in Deliveries : Alert_get_cfg(d, TRUE, 0)
    \/ \E d \in Deliveries : Save_result_begin(d)
    \/ ClockTick

SpecCap == InitCap /\ [][NextCap]_vars

(* ===================== Alert configs: the two hashes ==================== *)
\* redis hset / hget / hdel on a hash held as a set of <<key, value>> pairs
HSet(h, k, v) == {p \in h : p[1] # k} \cup {<<k, v>>}
HGet(h, k) == {p[2] : p \in {q \in h : q[1] = k}}
HDel(h, k) == {p \in h : p[1] # k}

\* str.replace(a, b) for single characters
Replace(x, a, b) == [i \in 1..Len(x) |-> IF x[i] = a THEN b ELSE x[i]]

\* a lookup that uses the name as the hash key, unnormalized
get_alert_config_raw_key(alert_name) ==
    LET raw == HGet(alert_cfg, alert_name)
    IN IF raw # {} THEN raw ELSE HGet(alert_cfg_legacy, alert_name)

\* RedisStore.get_alert_config: the new hash first, then the legacy one
get_alert_config(alert_name) ==
    LET alert_key == norm_alert_name(alert_name)
        raw == HGet(alert_cfg, alert_key)
    IN IF raw # {} THEN raw ELSE HGet(alert_cfg_legacy, alert_key)

\* the spellings on_chartink_alert retries when the first lookup found nothing
CfgVariants(alert_name) ==
    LET raw == Strip(alert_name)
    IN <<raw, StrLower(raw), StrLower(Replace(raw, " ", "_")),
         StrLower(Replace(raw, "_", " ")), norm_alert_name(raw)>>

RECURSIVE FirstHit(_)
FirstHit(vs) ==
    IF vs = <<>> THEN {}
    ELSE IF Head(vs) # <<>> /\ get_alert_config(Head(vs)) # {}
         THEN get_alert_config(Head(vs))
         ELSE FirstHit(Tail(vs))

\* on_chartink_alert's config lookup: by alert_key, then by the variants
DispatcherConfig(alert_name) ==
    LET cfg_raw == get_alert_config(norm_alert_name(alert_name))
    IN IF cfg_raw # {} THEN cfg_raw ELSE FirstHit(CfgVariants(alert_name))

\* RedisStore.set_alert_config: both hashes
set_alert_config(R) ==
    /\ alert_cfg = {} /\ alert_cfg_legacy = {}
    /\ alert_cfg' = HSet(alert_cfg, norm_alert_name(R), R)
    /\ alert_cfg_legacy' = HSet(alert_cfg_legacy, norm_alert_name(R), R)
    /\ cfg_look' = <<>>
    /\ UNCHANGED <<storeVars, sectorVars, memVars, taskVars, brokerVars, workerVars, fnVars,
                   histVars, boots>>

\* RedisStore.save_alert_config: the new hash only, nothing for an empty key
save_alert_config(R) ==
    /\ alert_cfg = {} /\ alert_cfg_legacy = {}
    /\ alert_cfg' = IF norm_alert_name(R) = <<>> THEN alert_cfg
                    ELSE HSet(alert_cfg, norm_alert_name(R), R)
    /\ cfg_look' = <<>>
    /\ UNCHANGED <<storeVars, sectorVars, memVars, taskVars, brokerVars, workerVars, fnVars,
                   alert_cfg_legacy, histVars, boots>>

\* RedisStore.delete_alert_config, the definition the class ends up with
delete_alert_config(n) ==
    /\ alert_cfg \cup alert_cfg_legacy # {}
    /\ cfg_look = <<>>
    /\ alert_cfg' = IF norm_alert_name(n) = <<>> THEN alert_cfg
                    ELSE HDel(alert_cfg, norm_alert_name(n))
    /\ cfg_look' = <<[op |-> "delete", name |-> n]>>
    /\ UNCHANGED <<storeVars, sectorVars, memVars, taskVars, brokerVars, workerVars, fnVars,
                   alert_cfg_legacy, histVars, boots>>

\* a lookup of name n: by the store, by the dispatcher, and by the dispatcher behind
\* the webhook's own normalization of the received name
LookupConfig(n) ==
    /\ cfg_look' = Append(cfg_look,
                          [op |-> "get", name |-> n,
                           got |-> get_alert_config(n),
                           found |-> DispatcherConfig(n),
                           hooked |-> DispatcherConfig(normalize_alert_name(n))])
    /\ UNCHANGED <<storeVars, sectorVars, memVars, taskVars, brokerVars, workerVars, fnVars,
                   alert_cfg, alert_cfg_legacy, histVars, boots>>

\* ---- SpecConfig: one config saved into a fresh store, then looked up ----
SavedNames ==
    {<<"S", "_", "n", "s", "e">>, <<"zw", "n", "s", "e", "-", "S", " ">>,
     <<"S", "tab", "S">>, <<"_">>}

InitConfig ==
    /\ config = AlertConfig
    /\ store_creds = TRUE
    /\ InitCommon

NextConfig ==
    \/ \E R \in SavedNames : set_alert_config(R)
    \/ \E R \in SavedNames : save_alert_config(R)
    \/ \E n \in NormInputs : cfg_look = <<>> /\ LookupConfig(n)

SpecConfig == InitConfig /\ [][NextConfig]_vars

\* ---- SpecConfigDelete: a saved config is deleted under some spelling, then looked up ----
NextConfigDelete ==
    \/ \E R \in SavedNames : set_alert_config(R)
    \/ \E R \in SavedNames : save_alert_config(R)
    \/ \E n \in SavedNames : delete_alert_config(n)
    \/ \E n \in NormInputs : Len(cfg_look) = 1 /\ LookupConfig(n)

SpecConfigDelete == InitConfig /\ [][NextConfigDelete]_vars

\* ---- SpecLate: one position entered, its fill reported by an order update, exited ----
\* ---- by a tick while the snapshot write of the order update is still in flight,   ----
\* ---- with every store and broker call answering                                    ----
LateTicks == {2000, 2024}
LatePrices == {2000, 2004}

InitLate ==
    /\ config = AlertConfig
    /\ store_creds = TRUE
    /\ InitCommon

NextLate ==
    \/ EntryGuardSteps({1}, {"SBIN"}, Ok, {2000}, {TRUE})
    \/ EntryOrderSteps({1}, Ok, Ok, {2000})
    \/ TickSteps({"SBIN"}, LateTicks, Ok)
    \/ ExitSteps(ExitTasks, Ok, Ok)
    \/ \E oid \in {1}, avg \in LatePrices : OnOrderUpdate(oid, avg)
    \/ OrderUpdate_upsert("ok")
    \/ Restart

SpecLate == InitLate /\ [][NextLate]_vars

(* ============================= Properties ============================== *)
\* the symbol has a position in the engine's memory that is still being traded
ActiveIn(s) == positions[s] # 0 /\ pos[positions[s]].status \in ActiveStatus

EntryOrders(s) ==
    {i \in 1..Len(orderLog) : orderLog[i].kind = "entry" /\ orderLog[i].sym = s}
ExitOrders(s) ==
    {i \in 1..Len(orderLog) : orderLog[i].kind = "exit" /\ orderLog[i].sym = s}

\* the broker accepts an entry order for s in this step
EntryAccepted(s) ==
    /\ Len(orderLog') = Len(orderLog) + 1
    /\ orderLog'[Len(orderLog')].kind = "entry"
    /\ orderLog'[Len(orderLog')].sym = s

(* ---- C1 ---- *)
\* C1: for every symbol at most one entered position is active: no entry order
\* is accepted for a symbol while the engine holds an OPEN, EXIT_CONDITIONS_MET
\* or EXITING position for it, and no two entered positions of the symbol are
\* active together.
C1_AtMostOneActive ==
    [][\A s \in Symbols :
         /\ EntryAccepted(s) => ~ActiveIn(s)
         /\ Cardinality({d \in Deliveries : /\ pos'[d].symbol = s
                                            /\ pos'[d].status \in ActiveStatus}) <= 1]_vars

(* ---- C2 ---- *)
\* C2: when two deliveries of the alert for the same symbol have both returned
\* and one of them ENTERED, the other one is SKIPPED because of the entry lock or
\* of a duplicate check (the in-memory answer ALREADY_OPEN is tolerated here as
\* well), one entry order was accepted, one position was created and the daily
\* counter is 1.
LoserReasons == {"ENTRY_LOCK_BUSY", "ALREADY_OPEN_REDIS", "ALREADY_OPEN"}

C2_ExactlyOneEntered ==
    \A d, e \in Deliveries :
        (/\ d # e
         /\ et[d].pc = "done" /\ et[e].pc = "done"
         /\ et[d].sym = et[e].sym
         /\ et[d].status = "ENTERED")
        => /\ et[e].status = "SKIPPED"
           /\ et[e].reason \in LoserReasons
           /\ Cardinality(EntryOrders(et[d].sym)) = 1
           /\ Cardinality({c \in Deliveries : pos[c].status # "NONE"}) = 1
           /\ counter = 1

(* ---- C3 ---- *)
GuardReasons ==
    {"SECTOR_FILTER", "ALREADY_OPEN", "ALREADY_OPEN_REDIS", "ENTRY_LOCK_BUSY", "KILL",
     "ZERODHA_NOT_CONNECTED", "CNC_SHORT_NOT_ALLOWED", "NO_LTP_FOR_CAPITAL_QTY", "BAD_QTY"}

\* slots claimed whose order has not been handed to the broker yet
AwaitingPlacement == {d \in Deliveries : et[d].pc = "place"}

C3_Step ==
    /\ counter' >= counter
    /\ counter' # counter
         => /\ counter' = counter + 1
            /\ \E d \in Deliveries : et[d].pc = "allow" /\ et'[d].pc = "place"
    /\ \A d \in Deliveries :
         /\ (et[d].pc = "allow" /\ et'[d].pc = "place") => counter' = counter + 1
         /\ (et[d].pc = "place" /\ et'[d].pc # "place") => attempts' = attempts + 1
         /\ (et'[d].reason \in GuardReasons /\ et[d].reason = "") => counter' = counter
    /\ attempts' # attempts
         => \E d \in Deliveries : et[d].pc = "place" /\ et'[d].pc \in {"mark_open", "set_kill"}

\* C3: with trade_limit_per_day >= 1 the daily counter counts exactly the entry
\* orders handed to the broker plus the claimed slots whose placement is the
\* next step: it grows by one exactly on the step that leads to the placement,
\* a return through an earlier guard leaves it unchanged, and it never shrinks,
\* not even when the placement fails.
C3_CounterIffPlacement ==
    /\ [](config.trade_limit_per_day >= 1
            => counter = attempts + Cardinality(AwaitingPlacement))
    /\ [][C3_Step]_vars

\* one delivery lost its slot to a failed placement, another one returned at the lock
C3_Witness ==
    \E d, e \in Deliveries :
        /\ et[d].pc = "done" /\ et[d].status = "ERROR" /\ et[d].reason = "ORDER_FAIL"
        /\ et[e].pc = "done" /\ et[e].reason = "ENTRY_LOCK_BUSY"
        /\ counter = 1 /\ attempts = 1

(* ---- C4 ---- *)
NoTraceOf(d) ==
    /\ pos[d] = NoPos
    /\ \A s \in Symbols : positions[s] # d /\ snapshot[s].trade_id # d
    /\ et[d].oid = 0

C4_Step ==
    \A d \in Deliveries :
        /\ (et[d].pc = "place" /\ et'[d].pc = "set_kill")
             => UNCHANGED <<open_guard, positions, pos, snapshot>>
        /\ (et[d].pc = "set_kill" /\ et'[d].pc # "set_kill")
             => /\ kill'
                /\ et'[d].pc = "release" /\ et'[d].status = "ERROR"
                /\ UNCHANGED <<open_guard, positions, pos, snapshot>>
        /\ (et[d].pc = "release" /\ et[d].reason = "ORDER_FAIL" /\ et'[d].pc # "release")
             => /\ et'[d].pc = "done" /\ et'[d].status = "ERROR"
                /\ UNCHANGED <<open_guard, positions, pos, snapshot>>

C5_GuardKeptOnExitFailure ==
    [][\A s \in Symbols :
         (open_guard[s] # 0 /\ open_guard'[s] = 0)
         => \E x \in ExitTasks : xt[x].sym = s /\ xt[x].pc = "clear_open" /\ xt[x].ok]_vars

(* ---- C6 ---- *)
\* C6: the kill switch is engaged only by a failed entry placement, never by a
\* failed exit placement (automatic, bulk or manual).
C6_ExitFailureNoKill ==
    [][(~kill /\ kill') => \E d \in Deliveries : et[d].pc = "set_kill"]_vars

(* ---- C7 ---- *)
Staged == {"OPEN", "EXIT_CONDITIONS_MET", "EXITING", "CLOSED"}
StageOf(st) ==
    CASE st = "OPEN" -> 0
      [] st = "EXIT_CONDITIONS_MET" -> 1
      [] st = "EXITING" -> 2
      [] st = "CLOSED" -> 3

\* C7: the status of a position never moves to an earlier stage of
\* OPEN -> EXIT_CONDITIONS_MET -> EXITING -> CLOSED.
C7_StatusNeverRegresses ==
    [][\A d \in Deliveries :
         (pos[d].status \in Staged /\ pos'[d].status \in Staged)
         => StageOf(pos'[d].status) >= StageOf(pos[d].status)]_vars

(* ---- C8 ---- *)
\* C8: the broker never receives more exit orders for a symbol than positions
\* were entered for it (one exit order per entered position at most).
C8_AtMostOneExitOrder ==
    \A s \in Symbols : Cardinality(ExitOrders(s)) <= Cardinality(EntryOrders(s))

(* ---- C9 ---- *)
TickReasons == {"TARGET", "STOP_LOSS", "TRAILING_SL"}

\* the three exit predicates on the position as the tick left it
HitTarget(p) ==
    /\ p.target_price > 0
    /\ IF p.side = "BUY" THEN p.ltp * PctScale >= p.target_price
       ELSE p.ltp * PctScale <= p.target_price
HitStop(p) ==
    /\ p.sl_price > 0
    /\ IF p.side = "BUY" THEN p.ltp * PctScale <= p.sl_price
       ELSE p.ltp * PctScale >= p.sl_price
HitTrail(p) ==
    /\ p.tsl_pct > 0
    /\ IF p.side = "BUY"
       THEN p.highest > 0 /\ p.ltp * PctScale <= p.highest * (PctScale - p.tsl_pct)
       ELSE p.lowest > 0 /\ p.ltp * PctScale >= p.lowest * (PctScale + p.tsl_pct)

FirstMatch(p) ==
    IF HitTarget(p) THEN "TARGET"
    ELSE IF HitStop(p) THEN "STOP_LOSS"
    ELSE IF HitTrail(p) THEN "TRAILING_SL"
    ELSE ""

\* C9: the tick that takes an OPEN intraday position out of OPEN records the
\* first of TARGET, STOP_LOSS, TRAILING_SL whose predicate is true on that tick,
\* a tick on which none is true leaves the position OPEN without a reason, and
\* a recorded reason is never changed afterwards.
C9_FirstMatchWins ==
    [][\A d \in Deliveries :
         /\ (pos[d].status = "OPEN" /\ pos'[d].status = "EXIT_CONDITIONS_MET")
              => /\ pos'[d].exit_reason = FirstMatch(pos'[d])
                 /\ pos'[d].exit_reason \in TickReasons
         /\ (pos[d].status = "OPEN" /\ pos'[d].status = "OPEN" /\ pos'[d].ltp # pos[d].ltp)
              => FirstMatch(pos'[d]) = "" /\ pos'[d].exit_reason = ""
         /\ pos[d].exit_reason \in TickReasons
              => pos'[d].exit_reason = pos[d].exit_reason]_vars

\* stop and trailing line were both crossed by the tick; STOP_LOSS was recorded
\* and a later tick at another price did not change it
C9_Witness ==
    \E d \in Deliveries :
        /\ pos[d].status = "EXIT_CONDITIONS_MET"
        /\ HitStop(pos[d]) /\ HitTrail(pos[d])
        /\ pos[d].exit_reason = "STOP_LOSS"
        /\ ticks[pos[d].symbol] # pos[d].ltp

(* ---- C10 ---- *)
\* C10: once a position is entered, the highest price of a BUY position never
\* decreases and the lowest price of a SELL position never increases.
C10_ExtremeMonotone ==
    [][\A d \in Deliveries :
         pos[d].status # "NONE"
         => /\ pos[d].side = "BUY" => pos'[d].highest >= pos[d].highest
            /\ pos[d].side = "SELL" => pos'[d].lowest <= pos[d].lowest]_vars

(* ---- C11 ---- *)
\* an entry-fill event for the position of delivery d is processed in this step
EntryFillStep(d) ==
    /\ pos[d].status # "NONE"
    /\ \/ pos'[d].entry_price # pos[d].entry_price
       \/ ot.pc = "idle" /\ ot'.pc = "upsert" /\ ot'.pay.trade_id = d

\* C11: processing a COMPLETE event for the entry order of an INTRADAY position
\* leaves target_price, sl_price and tsl_pct equal to the values derived from
\* the new entry_price and the echoed percentages, whatever the percentages
\* (zero included), and issues the snapshot write of the updated position.
C11_FillRecomputesLevels ==
    [][\A d \in Deliveries :
         (EntryFillStep(d) /\ pos[d].product = "MIS")
         => LET p == pos'[d] IN
            /\ p.target_price = TargetLevel(p.side, p.entry_price, p.cfg_target_pct)
            /\ p.sl_price = StopLevel(p.side, p.entry_price, p.cfg_sl_pct)
            /\ p.tsl_pct = p.cfg_tsl_pct
            /\ ot'.pc = "upsert" /\ ot'.pay = p]_vars

(* ---- C12 ---- *)
\* C12: normalizing a normalized form returns it unchanged, for both symbol
\* normalizers and for the alert-name normalizers.
C12_NormalizeIdempotent ==
    Len(ret) = 2 => ret[2] = ret[1]

(* ---- C13 ---- *)
\* C13: the store/engine symbol normalizer and the webhook symbol normalizer
\* return the same normalized symbol for every input.
C13_NormalizersAgree ==
    Len(ret) >= 1 => ret[1].store = ret[1].hook

(* ---- C14 ---- *)
C14_Step ==
    \A d \in Deliveries :
        (et[d].pc = "acquire" /\ et'[d].pc # "acquire")
        => LET k == Entry(et[d].sym) IN
           /\ kill' = kill
           /\ IF kill
              THEN lock' = lock /\ et'[d].pc = "done" /\ et'[d].reason = "KILL"
              ELSE IF lock[k]
              THEN lock' = lock /\ et'[d].pc = "done" /\ et'[d].reason = "ENTRY_LOCK_BUSY"
              ELSE /\ lock' = [lock EXCEPT ![k] = TRUE]
                   /\ et'[d].reason \notin {"KILL", "ENTRY_LOCK_BUSY"}

\* C14: acquire_lock is one step: with the kill key present it answers -2 and
\* changes nothing, even when the lock key exists as well; with the lock key
\* present it answers 0 and changes nothing; otherwise it sets the lock key and
\* answers 1.  So the lock is granted only when it was free, and of two
\* requests for a free lock only the first one is granted.
C14_AcquireLockAtomic == [][C14_Step]_vars

\* a request was answered -2 while another delivery was holding the lock
C14_Witness ==
    \E d, e \in Deliveries :
        /\ d # e /\ et[d].sym = et[e].sym
        /\ et[d].pc = "done" /\ et[d].reason = "KILL"
        /\ et[e].pc = "release" /\ et[e].reason = "ORDER_FAIL"
        /\ kill /\ lock[Entry(et[d].sym)]

(* ---- C15 ---- *)
\* deliveries whose allow_trade call returned true
Allowed == {d \in Deliveries : et[d].pc \in {"place", "mark_open", "upsert"}
                               \/ et[d].status = "ENTERED"}

C15_Step ==
    \A d \in Deliveries :
        (et[d].pc = "allow" /\ et'[d].pc # "allow")
        => LET limit == config.trade_limit_per_day IN
           IF limit <= 0 THEN counter' = counter /\ et'[d].pc = "place"
           ELSE IF counter >= limit
           THEN counter' = counter /\ et'[d].reason = "TRADE_LIMIT"
           ELSE counter' = counter + 1 /\ et'[d].pc = "place"

\* C15: allow_and_increment returns true and leaves the counter alone when the
\* limit is <= 0, returns false and leaves the counter alone when the counter
\* has reached the limit, and otherwise adds exactly one and returns true; with
\* a limit >= 1 the counter never exceeds the limit and at most `limit` of the
\* concurrent calls return true.
C15_AllowAndIncrement ==
    /\ [](config.trade_limit_per_day >= 1
            => /\ counter <= config.trade_limit_per_day
               /\ Cardinality(Allowed) <= config.trade_limit_per_day)
    /\ [][C15_Step]_vars

\* the limit was reached by one delivery and refused another one
C15_Witness ==
    \E d, e \in Deliveries :
        /\ et[d].status = "ENTERED"
        /\ et[e].pc = "done" /\ et[e].reason = "TRADE_LIMIT"
        /\ counter = config.trade_limit_per_day

(* ---- C16 ---- *)
EnteredBefore(d) == {e \in Deliveries : e < d /\ et[e].status = "ENTERED"}

\* C16: the symbols of one alert with limit L >= 1 are served in input order:
\* of the symbols that pass every other guard the first L are ENTERED and each
\* later one is SKIPPED with TRADE_LIMIT, without an order, the counter being L.
C16_FirstLEntered ==
    config.trade_limit_per_day >= 1 =>
    \A d \in Deliveries :
        /\ et[d].status = "ENTERED"
             => Cardinality(EnteredBefore(d)) < config.trade_limit_per_day
        /\ et[d].reason = "TRADE_LIMIT"
             => /\ et[d].status = "SKIPPED"
                /\ Cardinality(EnteredBefore(d)) = config.trade_limit_per_day
                /\ counter = config.trade_limit_per_day
                /\ \A i \in 1..Len(orderLog) : orderLog[i].trade # d

\* the first symbol was entered, the second one met the limit of 1
C16_Witness ==
    /\ config.trade_limit_per_day = 1
    /\ et[1].pc = "done" /\ et[1].status = "ENTERED"
    /\ et[2].pc = "done" /\ et[2].status = "SKIPPED" /\ et[2].reason = "TRADE_LIMIT"
    /\ counter = 1 /\ Len(orderLog) = 1

(* ---- C17 ---- *)
Resolved == {"result", "exception", "cancelled"}

C17_Step ==
    \A c \in Calls :
        /\ (ow_fut[c] = "pending" /\ ow_fut'[c] = "result")
             => ow_task = "returned" /\ ow_task' = "get"
        /\ (ow_fut[c] = "pending" /\ ow_fut'[c] = "exception")
             => ow_task = "raised" /\ ow_task' = "get"
        /\ ow_fut[c] \in Resolved => ow_fut'[c] = ow_fut[c]

\* C17: every submission is resolved in the end (with the result when the call
\* returned, with the exception when it raised, unless the submitter gave up),
\* a resolved future stays as it is, and after a raising call the worker is
\* back at its queue.
C17_SubmissionsResolve ==
    /\ \A c \in Calls : (ow_fut[c] = "pending") ~> (ow_fut[c] \in Resolved)
    /\ [][C17_Step]_vars

\* a call raised and a later submission was served
C17_Witness ==
    \E c, e \in Calls : c < e /\ ow_fut[c] = "exception" /\ ow_fut[e] = "result"

(* ---- C18 ---- *)
\* C18: every broker call of the engine is made by the Order Worker, the calls
\* begin in submission order, and never two broker calls are in flight.
C18_SingleBrokerCall ==
    /\ Cardinality(broker_inflight) <= 1
    /\ \A b \in broker_inflight : b.by = "worker"
    /\ \A i \in 1..Len(ow_started) : ow_started[i] = i

(* ---- C19 ---- *)
Mapped == DOMAIN STOCK_INDEX_MAPPING
\* the mapped symbols of a sector that have a percent change on record
Seen(sec) == {s \in Mapped : STOCK_INDEX_MAPPING[s] = sec /\ sym_pct[s] # NoPct}

RECURSIVE SumPct(_)
SumPct(S) ==
    IF S = {} THEN 0
    ELSE LET s == CHOOSE a \in S : TRUE IN sym_pct[s] + SumPct(S \ {s})

C19_Step ==
    \A s \in Symbols, ltp \in SectorTicks, close \in SectorCloses :
        OnTick(s, ltp, close)
        => IF close > 0 /\ s \in Mapped
           THEN sym_pct'[s] = PctChange(ltp, close)
           ELSE UNCHANGED sectorVars

\* C19: for every sector, sector_sum is the sum of the latest percent changes
\* of its mapped symbols seen so far and sector_cnt is their number; the ranking
\* lists the sectors with data by sum/count, best first; a tick of a mapped
\* symbol with prev_close > 0 records its percent change, any other tick
\* changes none of the maps.
C19_SectorSumAndCount ==
    /\ [](/\ \A sec \in Sectors : /\ sector_sum[sec] = SumPct(Seen(sec))
                                  /\ sector_cnt[sec] = Cardinality(Seen(sec))
          /\ \A s \in Symbols \ Mapped : sym_pct[s] = NoPct
          /\ LET ranked == get_sector_rank IN
             /\ {ranked[i] : i \in 1..Len(ranked)} = {sec \in Sectors : sector_cnt[sec] > 0}
             /\ \A i, j \in 1..Len(ranked) : i < j => AvgGeq(ranked[i], ranked[j]))
    /\ [][C19_Step]_vars

\* both bank symbols are on record, SBIN's last tick came without prev_close
\* and left its percent change, and the unmapped symbol has ticked
C19_Witness ==
    /\ sym_pct["SBIN"] = -10 /\ ticks["SBIN"] = 2020
    /\ sym_pct["HDFCBANK"] = 10
    /\ sector_cnt["NIFTY BANK"] = 2 /\ sector_sum["NIFTY BANK"] = 0
    /\ ticks["IDEA"] > 0

(* ---- C20 ---- *)
HasData(X) == sector_cnt[X] > 0
Position(X) == CHOOSE i \in 1..Len(sector_order) : sector_order[i] = X
\* Y stands before X in the ranking: better average, or equal and first to get data
Before(Y, X) ==
    \/ sector_sum[Y] * sector_cnt[X] > sector_sum[X] * sector_cnt[Y]
    \/ /\ sector_sum[Y] * sector_cnt[X] = sector_sum[X] * sector_cnt[Y]
       /\ Position(Y) < Position(X)
Ahead(X) == {Y \in Sectors \ {X} : HasData(Y) /\ Before(Y, X)}
Behind(X) == {Y \in Sectors \ {X} : HasData(Y) /\ Before(X, Y)}
AmongTop(X, n) == HasData(X) /\ Cardinality(Ahead(X)) < n
AmongBottom(X, n) == HasData(X) /\ Cardinality(Behind(X)) < n

GateConfig(dir, n, on) ==
    [AlertConfig EXCEPT !.direction = dir, !.top_n_sector = n, !.sector_filter_on = on]

\* C20: with the filter on and the symbol's sector known, the gate passes a
\* LONG entry exactly when the sector is among the top N of the ranking and a
\* SHORT entry exactly when it is among the bottom N, in every state of the
\* accumulator; with the filter off it passes.
C20_GateIffRanked ==
    \A s \in Mapped, n \in 1..2 :
        /\ _sector_allows(s, GateConfig("LONG", n, TRUE))
             <=> AmongTop(STOCK_INDEX_MAPPING[s], n)
        /\ _sector_allows(s, GateConfig("SHORT", n, TRUE))
             <=> AmongBottom(STOCK_INDEX_MAPPING[s], n)
        /\ _sector_allows(s, GateConfig("LONG", n, FALSE))
        /\ _sector_allows(s, GateConfig("SHORT", n, FALSE))

(* ---- C21 ---- *)
DispatcherVerdicts ==
    {<<"REJECTED", "KILL_SWITCH">>, <<"SKIPPED", "NO_CONFIG">>,
     <<"SKIPPED", "CFG_DISABLED">>, <<"REJECTED", "OUTSIDE_ENTRY_WINDOW">>}
StoppedAtDispatcher(t) == t.pc = "done" /\ <<t.status, t.reason>> \in DispatcherVerdicts

\* the delivery is stopped by this step
C21_Stops(d) == ~StoppedAtDispatcher(et[d]) /\ StoppedAtDispatcher(et'[d])

C21_Step ==
    \A d \in Deliveries :
        /\ C21_Stops(d)
           => /\ et[d].pc \in {"is_kill", "get_cfg"}
              /\ et[d].pc = "is_kill" <=> et'[d].reason = "KILL_SWITCH"
              /\ et'[d].reason = "KILL_SWITCH" => kill
              /\ et'[d].reason = "NO_CONFIG" <=> (et[d].pc = "get_cfg" /\ config = NoConfig)
              /\ et'[d].reason = "CFG_DISABLED" => ~config.enabled
              /\ UNCHANGED <<lock, counter, open_guard, snapshot, positions, pos, ticks,
                             orderLog, brokerNet, attempts, kill>>
        /\ StoppedAtDispatcher(et[d]) => et'[d] = et[d]

\* C21: an alert stopped by the dispatcher (kill switch, no config, config
\* disabled, outside the entry window) gets the dispatcher's (status, reason)
\* and stops there: the stopping step takes no lock, claims no slot of the daily
\* counter, submits no order and leaves positions and open-guards alone, and
\* the delivery takes no further step; it has no lock, order or position.
C21_DispatcherStopIsFrame ==
    /\ [][C21_Step]_vars
    /\ [](\A d \in Deliveries :
            StoppedAtDispatcher(et[d])
            => /\ pos[d] = NoPos
               /\ \A i \in 1..Len(orderLog) : orderLog[i].trade # d
               /\ et[d].oid = 0 /\ et[d].qty = 0)

\* one delivery was stopped by the kill switch after another one entered,
\* whose lock was released, counter slot, guard and position are still there
C21_Witness ==
    /\ et[2].pc = "done" /\ et[2].reason = "KILL_SWITCH" /\ et[2].sym = "SBIN"
    /\ et[1].pc = "done" /\ et[1].status = "ENTERED" /\ et[1].sym = "SBIN"
    /\ counter = 1 /\ open_guard["SBIN"] # 0 /\ positions["SBIN"] = 1
    /\ Len(orderLog) = 1


(* ---- C22 ---- *)
C22_Step ==
    \A d \in Deliveries :
        \* a result already obtained stays as it is
        /\ et[d].pc = "done" => et'[d] = et[d]
        \* the symbol whose processing raised is reported as ERROR
        /\ (et[d].status = "RAISED" /\ et'[d].pc = "done") => et'[d].status = "ERROR"
        \* a symbol not tried yet gets its result from its own processing
        /\ (et[d].pc = "idle" /\ et'[d].pc = "done") => et'[d].reason # "CRITICAL_FAIL"

\* C22: when the processing of one symbol of an alert raises, that symbol is
\* reported as ERROR, the results obtained for earlier symbols stay as they
\* are, and the other symbols are still processed.
C22_SymbolErrorIsolated == [][C22_Step]_vars


(* ---- C23 ---- *)
\* the records of the history filed under the time the delivery was received with
RowsOf(d) == {i \in 1..Len(alerts) : alerts[i].time = ht[d].first}

\* C23: once the webhook has finished a delivery, the history holds exactly one
\* record for the alert's name and time, and its result carries the symbol of
\* the delivery with the final (status, reason) of its Entry Path, for every
\* timestamp (the empty one too) and also when another delivery has the same
\* name and time.
C23_OneRowWithFinalResult ==
    \A d \in Deliveries :
        ht[d].pc = "saved2"
        => /\ Cardinality(RowsOf(d)) = 1
           /\ \A i \in RowsOf(d) :
                alerts[i].result = <<et[d].sym, et[d].status, et[d].reason>>


(* ---- C24 ---- *)
\* the position a rebuilt row must give; seedAll: extremes seeded whatever the product
C24_Expected(row, seedAll) ==
    LET seed(x) == IF x <= 0 /\ row.entry_price > 0 THEN row.entry_price ELSE x IN
    IF seedAll \/ row.product = "MIS"
    THEN [row EXCEPT !.status = "OPEN", !.highest = seed(@), !.lowest = seed(@)]
    ELSE [row EXCEPT !.status = "OPEN"]

C24_RestartStep(seedAll) ==
    boots' # boots
    => \A s \in Symbols :
         IF snapshot[s].status \in {"OPEN", "EXIT_CONDITIONS_MET", "EXITING"}
            /\ snapshot[s].qty > 0
         THEN /\ positions'[s] # 0
              /\ pos'[positions'[s]] = C24_Expected(snapshot[s], seedAll)
              /\ ~exit_inflight'[s] /\ ~exit_signal_sent'[s]
         ELSE positions'[s] = 0

\* the first tick after the restart, on a rebuilt intraday position
C24_TickStep ==
    \A s \in Symbols :
        LET d == positions[s]
            p == WithExtremes(WithLtp(pos[d], ticks'[s]), ticks'[s])
        IN (/\ boots > 0 /\ boots' = boots
            /\ d # 0 /\ ticks[s] = 0 /\ ticks'[s] # 0
            /\ pos[d].status = "OPEN" /\ pos[d].product = "MIS"
            /\ FirstMatch(p) # "")
           => /\ pos'[d].status = "EXIT_CONDITIONS_MET"
              /\ pos'[d].exit_reason = FirstMatch(p)
              /\ exit_signal_sent'[s]
              /\ tt'.pc = "upsert1" /\ tt'.reason = FirstMatch(p)

\* C24 as stated: every rebuilt position has its non-positive extremes seeded
C24_RehydrateAsStated == [][C24_RestartStep(TRUE)]_vars

\* C24 (amended): rehydrate_open_positions rebuilds exactly the rows with status
\* OPEN, EXIT_CONDITIONS_MET or EXITING and qty > 0, each with status OPEN and
\* cleared exit flags, and seeds the non-positive extremes of an intraday (MIS)
\* position with entry_price when entry_price > 0; rows of any other status are
\* skipped; the first tick that satisfies an exit predicate of a rebuilt
\* intraday position starts its exit with the reason of that predicate.
C24_Rehydrate == [][C24_RestartStep(FALSE) /\ C24_TickStep]_vars

\* after the restart the rebuilt position was closed by an exit with reason
\* TARGET: order placed, snapshot row and memory entry gone
C24_Witness ==
    /\ boots = 1
    /\ \E x \in ExitTasks : /\ xt[x].pc = "clear_open" /\ xt[x].ok
                            /\ xt[x].reason = "TARGET" /\ xt[x].via = "tick"
    /\ snapshot["SBIN"] = NoPos /\ positions["SBIN"] = 0
    /\ Len(orderLog) = 2


(* ------------------------------- C25 ----------------------------------- *)
\* a call of manual_squareoff_zerodha returned or reached its first await
ManualCalled == mt'.calls = mt.calls + 1

\* the call runs the Exit Path for the symbol with reason MANUAL
ManualExitPath(s) ==
    /\ mt'.pc = "idle"
    /\ \E x \in ExitTasks :
          /\ xt[x].pc = "free"
          /\ xt'[x].pc = "acquire"
          /\ xt'[x].sym = s
          /\ xt'[x].reason = "MANUAL"

\* the call starts the broker-positions fallback for the symbol
ManualFallback(s) ==
    /\ mt'.pc \in {"configure", "positions"}
    /\ mt'.sym = s
    /\ xt' = xt

C25_Step ==
    ManualCalled =>
        \A s \in Symbols :
            /\ ActiveIn(s) => ~ManualFallback(s)
            /\ ManualFallback(s) => positions[s] = 0

\* C25: a manual square-off of a symbol that has an in-memory position in an
\* active status (OPEN, EXIT_CONDITIONS_MET, EXITING) runs the Exit Path; the
\* broker-positions fallback is taken only when the symbol has no in-memory
\* position.
C25_ManualUsesExitPath == [][C25_Step]_vars

(* ------------------------------- C26 ----------------------------------- *)
\* exit_all_open_positions returns after its kill-switch read
BulkReturns == bt.pc = "is_kill" /\ bt'.pc = "idle"

\* exit tasks created by the step
Dispatched == {x \in ExitTasks : xt[x].pc = "free" /\ xt'[x].pc = "start" /\ xt'[x].via = "bulk"}

C26_Step ==
    BulkReturns =>
        /\ \A s \in bt.syms : \E x \in Dispatched : xt'[x].sym = s
        /\ Cardinality(Dispatched) = Cardinality(bt.syms)

\* C26: the bulk square-off creates one Exit Path invocation for every position
\* that was OPEN at the call, whatever the state of the kill switch.
C26_BulkDispatchesEveryOpen == [][C26_Step]_vars


(* ------------------------------- C27 ----------------------------------- *)
\* _try_enter of delivery d returns ENTERED in this step
ReturnsEntered(d) == et[d].status # "ENTERED" /\ et'[d].status = "ENTERED"

C27_Step ==
    \A d \in Deliveries :
        ReturnsEntered(d) =>
            LET s == et[d].sym IN
            /\ open_guard'[s] # 0
            /\ positions'[s] # 0
            /\ pos'[positions'[s]].status = "OPEN"

\* C27: when the Entry Path returns ENTERED for a symbol, the open-guard of the
\* symbol is present in the store and the position is in memory with status
\* OPEN, also when a store write after the order failed.
C27_EnteredHasGuard == [][C27_Step]_vars


(* ------------------------------- C28 ----------------------------------- *)
\* positions of _try_enter inside the critical section of the entry lock
CriticalPcs == {"configure", "wait_ltp", "allow", "place", "set_kill",
                "mark_open", "upsert", "release"}

\* the step submits an entry order of delivery d to the broker
SubmitsEntry(d) ==
    /\ attempts' = attempts + 1
    /\ et'[d] # et[d]

C28_Step ==
    \A d \in Deliveries :
        \* a lock request that runs while the kill key exists ends the invocation
        /\ (et[d].pc = "acquire" /\ et'[d] # et[d] /\ kill) =>
               /\ et'[d].pc = "done"
               /\ et'[d].status = "SKIPPED"
               /\ et'[d].reason = "KILL"
               /\ lock' = lock
        \* the critical section is entered only by a lock request without the key
        /\ (et[d].pc \notin CriticalPcs /\ et'[d].pc \in CriticalPcs) =>
               et[d].pc = "acquire" /\ ~kill
        \* an entry order is submitted only from inside the critical section
        /\ SubmitsEntry(d) => et[d].pc = "place"

\* C28: an Entry Path invocation whose lock request ran while the kill switch
\* key existed submits no entry order: the kill check and the set-if-absent are
\* one store step, and once a failed entry placement has set the kill switch no
\* invocation that requests its lock afterwards reaches the order placement
\* until the switch is cleared.
C28_NoEntryUnderKill == [][C28_Step]_vars

\* a failed placement set the kill switch and a later lock request was refused by it
C28_Witness ==
    /\ kill
    /\ \E d, e \in Deliveries :
          /\ et[d].status = "ERROR" /\ et[d].reason = "ORDER_FAIL"
          /\ et[e].status = "SKIPPED" /\ et[e].reason = "KILL"


(* ------------------------------- C29 ----------------------------------- *)
\* positions of _exit_position while it holds the exit lock
ExitCriticalPcs == {"upsert", "place", "set_kill", "delete", "alert_status",
                    "upsert_err", "clear_open", "release"}

\* _try_enter of delivery d leaves its critical section in this step
EntryReturns(d) == et[d].pc \in CriticalPcs /\ et'[d].pc \notin CriticalPcs

\* _exit_position of task x leaves its critical section in this step
ExitReturns(x) == xt[x].pc \in ExitCriticalPcs /\ xt'[x].pc \notin ExitCriticalPcs

C29_Step ==
    /\ \A d \in Deliveries :
          EntryReturns(d) => et[d].pc = "release" /\ ~lock'[Entry(et[d].sym)]
    /\ \A x \in ExitTasks :
          ExitReturns(x) => xt[x].pc = "release" /\ ~lock'[Exit(xt[x].sym)]

C30_Step ==
    \A x \in ExitTasks :
        (ExitReturns(x) /\ xt[x].ok) =>
            LET s == xt[x].sym IN
            /\ positions'[s] = 0
            /\ snapshot'[s] = NoPos
            /\ open_guard'[s] = 0
            /\ ~lock'[Exit(s)]
            /\ ~exit_inflight'[s]
            /\ ~exit_signal_sent'[s]

\* C30: when an Exit Path invocation whose exit order was placed returns, the
\* symbol has no in-memory position and no snapshot row, its open-guard is
\* cleared, its exit lock is released and both exit flags are false.
C30_ExitLeavesNothing == [][C30_Step]_vars


(* ------------------------------- C31 ----------------------------------- *)
\* no save_alert call stands between its lpush and its ltrim
NoTrimPending == \A d \in Deliveries : ht[d].pc \notin {"trim1", "trim2"}

\* C31: the alert history never holds more than 200 records, whatever the
\* interleaving of the save_alert calls of concurrent webhooks (the record a
\* new alert has pushed and not yet trimmed is not counted).
C31_HistoryCapped == NoTrimPending => Len(alerts) <= HistoryCap


(* ------------------------------- C32 ----------------------------------- *)
\* delivery d names a symbol without sector while the sector filter is on
Unmapped(d) ==
    /\ config # NoConfig
    /\ config.enabled
    /\ config.sector_filter_on
    /\ et[d].sym # ""
    /\ et[d].sym \notin DOMAIN STOCK_INDEX_MAPPING

C32_Step ==
    \A d \in Deliveries :
        Unmapped(d) =>
            \* the Entry Path never gets past its first check
            /\ et'[d].pc \in {"is_kill", "get_cfg", "done"}
            \* the dispatcher step that calls it returns SECTOR_FILTER (or stops
            \* outside the entry window) and touches no lock, counter, guard or order
            /\ (et[d].pc = "get_cfg" /\ et'[d] # et[d]) =>
                   /\ et'[d].pc = "done"
                   /\ \/ et'[d].status = "SKIPPED" /\ et'[d].reason = "SECTOR_FILTER"
                      \/ et'[d].status = "REJECTED" /\ et'[d].reason = "OUTSIDE_ENTRY_WINDOW"
                   /\ UNCHANGED <<lock, counter, open_guard, orderLog, attempts>>

\* C32: with the sector filter on, an entry for a symbol without sector mapping
\* is answered SKIPPED, SECTOR_FILTER before any lock, counter or order is
\* touched, whatever the sector ranking holds.
C32_UnmappedRejected == [][C32_Step]_vars

\* two deliveries for an unmapped symbol were refused and a sector ranking is present
C32_Witness ==
    \E d, e \in Deliveries :
        /\ d < e
        /\ et[d].sym = "IDEA" /\ et[d].reason = "SECTOR_FILTER"
        /\ et[e].sym = "IDEA" /\ et[e].reason = "SECTOR_FILTER"
        /\ sector_order # <<>>


(* ------------------------------- C33 ----------------------------------- *)
\* the dispatcher calls _try_enter for delivery d and the sector gate lets it pass
EntryPathCalled(d) ==
    /\ et[d].pc = "get_cfg"
    /\ et'[d] # et[d]
    /\ config # NoConfig
    /\ config.enabled
    /\ _sector_allows(et[d].sym, config)
    /\ ~(et'[d].status = "REJECTED" /\ et'[d].reason = "OUTSIDE_ENTRY_WINDOW")

C33_Step ==
    \A d \in Deliveries :
        (EntryPathCalled(d) /\ ActiveIn(et[d].sym)) =>
            /\ et'[d].pc = "done"
            /\ et'[d].status = "SKIPPED"
            /\ et'[d].reason = "ALREADY_OPEN"

\* C33: the Entry Path answers SKIPPED, ALREADY_OPEN, without reading the
\* store, whenever the symbol has an in-memory position with status OPEN,
\* EXIT_CONDITIONS_MET or EXITING.
C33_MemoryDuplicate == [][C33_Step]_vars


(* ------------------------------- C34 ----------------------------------- *)
\* a tick of symbol s is processed, or the tick handler resumes
TickProcessed(s) == boots' = boots /\ (ticks'[s] # ticks[s] \/ tt' # tt)

\* the fields of a position that a tick may change on a DELIVERY position
\* (updated_ts is not part of the model's position record)
SameButLtpPnl(p, q) == [p EXCEPT !.ltp = 0, !.pnl = 0] = [q EXCEPT !.ltp = 0, !.pnl = 0]

C34_Step ==
    \A s \in Symbols :
        LET ref == positions[s] IN
        (ref # 0 /\ pos[ref].product = "CNC" /\ pos[ref].status = "OPEN" /\ TickProcessed(s)) =>
            /\ positions'[s] = ref
            /\ SameButLtpPnl(pos[ref], pos'[ref])
            /\ pos'[ref].ltp = ticks'[s]
            /\ UNCHANGED <<tt, xt, exit_inflight, exit_signal_sent>>

Taxonomy ==
    ({"REJECTED"} \X {"KILL_SWITCH", "OUTSIDE_ENTRY_WINDOW", "BAD_QTY", "CNC_SHORT_NOT_ALLOWED"})
    \cup ({"SKIPPED"} \X {"NO_CONFIG", "DISABLED", "SECTOR_FILTER", "ALREADY_OPEN",
                          "ALREADY_OPEN_REDIS", "ENTRY_LOCK_BUSY",
                          "NO_LTP_FOR_CAPITAL_QTY", "TRADE_LIMIT"})
    \cup ({"ENTERED"} \X {""})
    \cup ({"ERROR"} \X {"ZERODHA_NOT_CONNECTED", "ORDER_FAIL", "CRITICAL_FAIL"})

\* C35: every per-symbol result returned for an alert carries a (status,
\* reason) pair of the taxonomy; an ENTERED result carries its order id.
C35_ResultInTaxonomy ==
    \A d \in Deliveries :
        et[d].pc = "done" =>
            /\ <<et[d].status, et[d].reason>> \in Taxonomy
            /\ et[d].status = "ENTERED" => et[d].oid # 0

\* the raw names under which a config is stored in either hash
SavedRaw == {p[2] : p \in alert_cfg \cup alert_cfg_legacy}

\* what a config lookup answered for raw name R: returned by the store, found by the
\* dispatcher, found by the dispatcher behind the webhook
LookupHits(q, R) == <<R \in q.got, R \in q.found, R \in q.hooked>>

C39_DeletedConfigGone ==
    \A i, j \in 1..Len(cfg_look) :
        /\ i < j
        /\ cfg_look[i].op = "delete"
        /\ cfg_look[j].op = "get"
        /\ norm_alert_name(cfg_look[j].name) = norm_alert_name(cfg_look[i].name)
        => cfg_look[j].got = {}

(* ------------------------------- C37 ----------------------------------- *)
\* the Exit Path invocation that a tick started for its symbol returns in this step
TickExitReturns(x) == xt[x].via = "tick" /\ xt[x].pc # "free" /\ xt'[x].pc = "free"

\* the symbol's in-memory position is still waiting for its exit and no Exit Path
\* invocation for the symbol is left
AwaitsExit(s) ==
    /\ positions'[s] # 0
    /\ pos'[positions'[s]].status \in {"EXIT_CONDITIONS_MET", "EXITING"}
    /\ \A y \in ExitTasks : xt'[y].pc = "free" \/ xt'[y].sym # s

C37_Step == \A x \in ExitTasks : TickExitReturns(x) => ~AwaitsExit(xt[x].sym)

\* C37: once a tick matched an exit predicate of an OPEN INTRADAY position, the position
\* becomes CLOSED (removed) or ERROR: it is never left in EXIT_CONDITIONS_MET or EXITING
\* when the Exit Path invocation started for it returns and no other invocation for the
\* symbol is running, whether the exit lock was free, busy or refused because the kill
\* switch is set.
C37_ExitSettles == [][C37_Step]_vars

(* ------------------------------- C38 ----------------------------------- *)
\* the broker took the exit order of trade t
ExitOrdered(t) == \E i \in 1..Len(orderLog) : orderLog[i].kind = "exit" /\ orderLog[i].trade = t

\* no store write creates the row of an exited trade anew
C38_Step ==
    \A s \in Symbols :
        (snapshot[s] = NoPos /\ snapshot'[s] # NoPos) => ~ExitOrdered(snapshot'[s].trade_id)

\* C38: after the Exit Path deleted the snapshot row of a successfully exited position,
\* no later store write (snapshot write of the tick handler, entry-price reconciliation,
\* order update) creates the row again, so a restart never rehydrates a closed position.
C38_NoRowAfterExit == [][C38_Step]_vars

(* ------------------------------- C40 ----------------------------------- *)
\* the release_lock call of delivery d is answered in this step while the entry lock
\* of its symbol is a key that another invocation created
LateEntryRelease(d) ==
    /\ et[d].pc = "release"
    /\ et'[d].pc # "release"
    /\ lock_by[Entry(et[d].sym)] \notin {0, d}

\* the same for the exit lock and exit task x
LateExitRelease(x) ==
    /\ xt[x].pc = "release"
    /\ xt'[x].pc # "release"
    /\ lock_by[Exit(xt[x].sym)] \notin {0, x}

C40_Step ==
    /\ \A d \in Deliveries :
          LateEntryRelease(d) =>
              /\ lock'[Entry(et[d].sym)]
              /\ lock_by'[Entry(et[d].sym)] = lock_by[Entry(et[d].sym)]
    /\ \A x \in ExitTasks :
          LateExitRelease(x) =>
              /\ lock'[Exit(xt[x].sym)]
              /\ lock_by'[Exit(xt[x].sym)] = lock_by[Exit(xt[x].sym)]

\* C40: release_lock removes only a lock the releasing invocation itself still holds:
\* when the lock of an invocation has expired and another invocation has acquired it,
\* the late release of the first one leaves the new holder's lock in place.
C40_ReleaseOwnLockOnly == [][C40_Step]_vars

====
